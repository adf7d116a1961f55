---------------------------- MODULE MCVolumeFeed ----------------------------
\* Model values of the feed: how many records each journal gets.
EXTENDS VolumeFeed

\* Two records, then a new journal with one.
Replaced == <<2, 1>>

\* Two records, then a new journal that stays empty.
ReplacedByEmpty == <<2, 0>>

\* A single journal of one record.
Single == <<1>>
=============================================================================
