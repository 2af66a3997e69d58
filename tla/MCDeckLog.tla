----------------------------- MODULE MCDeckLog -----------------------------
EXTENDS DeckLog
\* Headings as the script writes them, and as the logs under changelog/ do.
BothStyles == {ScriptStyle, "# V-Sekai Multiplayer Fabric Deck Log "}
=============================================================================
