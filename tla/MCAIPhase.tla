----------------------------- MODULE MCAIPhase -----------------------------
EXTENDS AIPhase

\* More scenarios than threads on the first page, a page that is half cached,
\* one that is served from the cache, and one without any AI task.
MCPages == <<{"c1", "m1", "m2"}, {"m1", "m3"}, {"c1", "m3"}, {}>>
=============================================================================
