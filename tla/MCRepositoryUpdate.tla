------------------------- MODULE MCRepositoryUpdate -------------------------
EXTENDS RepositoryUpdate

CONSTANTS t1, s1, x, y

MCTemplates == {t1}
MCScripts == {s1}
MCUnsized == {s1}
MCSums == {x, y}
=============================================================================
