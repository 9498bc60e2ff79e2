------------------------------ MODULE MCSetup -------------------------------
(* Small instances of Setup for TLC. *)
EXTENDS Setup, TLC

\* everything there is to tick, or nothing
AllOrLittle ==
  {[desktop |-> TRUE, add_to_path |-> TRUE, shortcut |-> TRUE, model |-> "pull and install Ollama"],
   [desktop |-> FALSE, add_to_path |-> FALSE, shortcut |-> FALSE, model |-> "no"]}

\* nothing tells one version from another
VersionsAreAlike == Permutations(Release)
=============================================================================
