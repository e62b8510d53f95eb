------------------------------- MODULE MCCrawl -------------------------------
(***************************************************************************)
(* A small instance of Crawl.  Two pages link to a third, a page links     *)
(* back to the seed, and one link is out of scope: all the seed leads to   *)
(* can be visited.  The sitemap, if it is a source, announces a far page,  *)
(* with which there are more than MaxPages.  The far page shows more than  *)
(* the frontier takes beside what the seed shows; and what only the far    *)
(* page shows, if the seed fails, links to what lies too deep.             *)
(***************************************************************************)
EXTENDS Crawl, TLC

CONSTANTS home, left, right, deep, far, private

MCURLs == {home, left, right, deep, far, private}
MCLinks ==
  home :> <<left, right, private>> @@ left :> <<deep, home>> @@
  right :> <<left, deep>> @@ deep :> <<>> @@ far :> <<right, deep>> @@ private :> <<>>
MCSitemaps == <<far>>
MCNoSitemaps == <<>>
MCExcluded == {private}
MCPageBytes == {1, 3}
MCOneByte == {1}

=============================================================================
