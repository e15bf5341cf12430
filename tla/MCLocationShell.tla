--------------------------- MODULE MCLocationShell ---------------------------
(* The location shell with command lines of one and two options: a text     *)
(* that just fits, one that is too long, one that is taken back by an empty *)
(* one, numbers inside and outside their range, a reset alone and after an  *)
(* option, an option that is not known.                                     *)
EXTENDS LocationShell

Arg(opt, val) == [opt |-> opt, val |-> val]
Reset == Arg("reset", 0)

TypedConfig == {
  <<Arg("man", 64)>>, <<Arg("man", 65)>>, <<Arg("man", 1), Arg("man", 0)>>, <<Arg("ident", 32)>>,
  <<Arg("category", 2), Arg("category", 0)>>, <<Arg("category", 2), Arg("unknown", 1)>>,
  <<Arg("category", 3), Reset>>}

TypedSet == {<<Arg("status", 0)>>, <<Arg("level", 4)>>, <<Reset>>}

TypedRuns == {<<"send", 1>>}

ShellSymmetry == Permutations(Shells)
=============================================================================
