----------------------------- MODULE Arguments ------------------------------
(***************************************************************************)
(* System/Arguments: the words of the command line.  An argument is a      *)
(* switch or takes a number from the word behind it.                       *)
(***************************************************************************)
EXTENDS Numbers, TLC

Nothing == [unnamed |-> <<>>, set |-> [arg \in {} |-> 0], error |-> FALSE]

(* AddArgument for each of names: the map keeps the first of equal ones. *)
AddArgument(nameMap, names, arg) == nameMap @@ [name \in names |-> arg]

(* BoolArgument: it is set, and takes no word. *)
ReadSwitch == [used |-> 0, value |-> TRUE, result |-> "set"]

(* IntArrayArgument: empty words are skipped, a missing one sets nothing. *)
ReadInteger(words, limit) ==
  LET i == Least({j \in DOMAIN words : words[j] # <<>>})
      r == FastSigned(words[i], 10, limit)
  IN  IF i = NPOS THEN [used |-> Len(words), value |-> 0, result |-> "nothing"]
      ELSE [used |-> i, value |-> r[2],
            result |-> IF r[1] = "number" THEN "set" ELSE "exception"]

(***************************************************************************)
(* ReadArguments, of the words behind the name of the program, with the    *)
(* kinds of the arguments.  What was set before an exception stays so, and *)
(* of two values the later one does.                                       *)
(***************************************************************************)
ReadArguments(words, nameMap, kinds, limit) ==
  LET Named(name, left) ==
        IF kinds[nameMap[name]] = "switch" THEN ReadSwitch ELSE ReadInteger(left, limit)
      read[i \in Nat] ==
        LET left == SubSeq(words, i + 1, Len(words))
            name == Tail(words[i])
            arg == Named(name, left)
        IN  CASE i > Len(words) -> Nothing
              [] i <= Len(words) /\ words[i] = <<>> -> read[i + 1]
              [] i <= Len(words) /\ words[i] # <<>> /\ words[i][1] # Minus ->
                   [read[i + 1] EXCEPT !.unnamed = <<words[i]>> \o @]
              [] OTHER ->
                   IF name \notin DOMAIN nameMap \/ arg.result = "exception"
                   THEN [Nothing EXCEPT !.error = TRUE]
                   ELSE LET rest == read[i + 1 + arg.used]
                        IN  IF arg.result = "nothing" THEN rest
                            ELSE [rest EXCEPT !.set = @ @@ (nameMap[name] :> arg.value)]
  IN  read[1]

(* GetNamedArgument, and a null pointer *)
GetNamedArgument(nameMap, name) ==
  IF name \in DOMAIN nameMap THEN nameMap[name] ELSE "null"
=============================================================================
