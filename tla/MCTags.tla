------------------------------- MODULE MCTags -------------------------------
EXTENDS Tags
CONSTANTS a, ab, ba
MCTagNames == {a, ab, ba}
MCBegins == {<<t, t>> : t \in MCTagNames} \cup {<<a, ab>>}
MCCmds == <<ab, ba, a>>
MCWithin == MCBegins \cup {<<a, ba>>}
==============================================================================
