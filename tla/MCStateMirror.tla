---------------------------- MODULE MCStateMirror ----------------------------
\* StateMirror for TLC; the configuration gives the bounds.
EXTENDS StateMirror
=============================================================================
