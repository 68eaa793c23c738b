----------------------------- MODULE MCScraper -----------------------------
(***************************************************************************)
(* Small instances of Scraper: two sources, s1 with two records.           *)
(***************************************************************************)
EXTENDS Scraper

CONSTANTS s1, s2, r1, r2, r3

TwoSources == <<s1, s2>>
OneSource  == <<s1>>
Owner      == [r \in Records |-> IF r = r3 THEN s2 ELSE s1]
OwnerIsS1  == [r \in Records |-> s1]
Utc        == [r \in Records |-> 0]
\* A source that writes the date of its first record two hours east of UTC.
East       == [r \in Records |-> IF r = r1 THEN 2 ELSE 0]

\* One way to write timestamps; after the drift the model may be unsure.
OneUnit    == <<{"epoch_s"}, {"epoch_s", "unsure"}>>
\* Seconds, then a date; after the drift the model may be unsure.
ToDates    == <<{"epoch_s"}, {"iso8601", "unsure"}>>
\* A field in milliseconds, then one in seconds.
UnitDrift  == <<{"epoch_ms"}, {"epoch_s"}>>
IsoOnly    == <<{"iso8601"}>>
OneShape   == <<{"epoch_s"}>>
=============================================================================
