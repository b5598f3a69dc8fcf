----------------------------- MODULE MCTerminal -----------------------------
(* Instances of Terminal for TLC.                                            *)
EXTENDS TerminalLines, TLC

\* Two lines, one shorter than the other.
TextsMC == {<<"a", NL>>, <<NL>>}
=============================================================================
