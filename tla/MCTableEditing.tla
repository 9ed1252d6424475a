---------------------------- MODULE MCTableEditing ----------------------------
(* TableEditing on three rows, each kind of surroundings with what makes it hard. *)
EXTENDS TableEditing

PassingEnvs ==
  { {"worker", "edit", "delete", "bulk"}, {"worker", "bulk", "delete", "remote"},
    {"worker", "edit", "remote", "formula"}, {"worker", "edit", "shadow", "formula"},
    {"worker", "drag", "formula"}, {"drag", "board", "formula"}, {"drag", "tie"},
    {"edit", "drag", "formula", "remote"}, {"edit", "shadow", "remote", "formula"},
    {"edit", "bulk", "delete", "remote"}, {"worker", "edit", "entry", "remote"},
    {"edit", "entry", "remote"}, {"worker", "edit", "delete", "fail"},
    {"worker", "columns", "entry", "remote"}, {"edit", "columns"} }
=============================================================================
