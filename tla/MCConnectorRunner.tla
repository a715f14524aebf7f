-------------------------- MODULE MCConnectorRunner --------------------------
EXTENDS ConnectorRunner

CONSTANTS c1, c2

MCCallers == {c1, c2}

\* Two names of which one starts the other, a name with more text behind it, and
\* a text that no name starts.
MCTexts == { <<"sync", " templates">>, <<"internal:", "repo", " validate">>, <<"script">> }
=============================================================================
