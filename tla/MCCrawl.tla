------------------------------ MODULE MCCrawl -------------------------------
(***************************************************************************)
(* A company's site of four pages and a page elsewhere, with every         *)
(* combination of a few ways to link them.                                 *)
(***************************************************************************)
EXTENDS Crawl

CONSTANTS home, about, jobs, team, elsewhere, acme, other

Hosts == [u \in Urls |-> IF u = elsewhere THEN other ELSE acme]

\* Two pages tie; a link to the home page is not worth following from below.
Promise ==
  [u \in Urls |-> CASE u \in {about, team} -> 3 [] u = jobs -> 2 [] OTHER -> 0]

Links(u) ==
  CASE u = home  -> {<<about, jobs>>, <<jobs, elsewhere, about, team>>, <<team>>}
    [] u = about -> {<<>>, <<team, home>>, <<jobs, jobs>>}
    [] u = jobs  -> {<<team>>, <<about, elsewhere>>}
    [] u = team  -> {<<home>>, <<jobs, about>>}
    [] OTHER     -> {<<home, elsewhere>>}

AnySite == {s \in [Urls -> UNION {Links(u) : u \in Urls}] : \A u \in Urls : s[u] \in Links(u)}
=============================================================================
