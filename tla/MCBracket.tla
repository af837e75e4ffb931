---------------------------- MODULE MCBracket ----------------------------
EXTENDS Bracket
==========================================================================
