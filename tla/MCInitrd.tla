------------------------------ MODULE MCInitrd ------------------------------
(***************************************************************************)
(* Directories of up to three entries, in every order: more files than     *)
(* nodes, two names that are cut to the name of a third, a file of more    *)
(* than one chunk, an empty one, one with a NUL, and a subdirectory.  The  *)
(* file kernel_main reads fits its buffer or does not.                     *)
(***************************************************************************)
EXTENDS Initrd

hi == <<"h", "i">>
ab == <<"a", "b">>
abc == <<"a", "b", "c">>
abd == <<"a", "b", "d">>

AllBytes ==
  {"a", "b", "c", "d", "h", "i", "x", "y", "NUL", "other", "not found", "not mounted"}

File(name, data) == [name |-> name, data |-> data, isfile |-> TRUE]

Entries ==
  {File(hi, <<"x", "y">>), File(hi, <<"y", "x", "y">>),
   File(ab, <<"y", "x", "y", "y", "x">>), File(abc, <<>>), File(abd, <<"x", "NUL", "y">>),
   [name |-> <<"d">>, data |-> <<>>, isfile |-> FALSE]}

AllDirectories ==
  {dir \in UNION {[1 .. n -> Entries] : n \in 0 .. 3} :
     \A k, l \in DOMAIN dir : dir[k].name = dir[l].name => k = l}

AllBoots == [module : {"none", "initrd", "other"}, location : {3}]
AllNames == {hi, ab, abc, <<"a">>}
=============================================================================
