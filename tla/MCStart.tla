------------------------------ MODULE MCStart -------------------------------
(* The start with small values: two teams, one of them the team 0 whose    *)
(* inbox agents of several use; team numbers of two bits, and a number     *)
(* that does not fit in them; and one of the names of checks has a dot.    *)
EXTENDS StartUp

MCNumbers == 0..4

(* A check with everything given, and those that differ from it in a part, *)
(* a special definition with an absent frequency.                          *)
Whole == [json |-> TRUE, frequency |-> "given", weight |-> "given",
          type |-> "known", definition |-> "given"]
MCFiles ==
  {Whole, [Whole EXCEPT !.json = FALSE], [Whole EXCEPT !.weight = "absent"]}
    \cup {[Whole EXCEPT !.frequency = n] : n \in {"absent", "zero", "bad"}}
    \cup {[Whole EXCEPT !.type = t] : t \in {"absent", "unknown"}}
    \cup {[Whole EXCEPT !.definition = d, !.frequency = "absent"] :
            d \in {"none", "wrong", "absent", "zero"}}

(* A definition with a host, a port and a list; host is known by two names *)
(* and one name is of no field.  The texts are a number in braces, and a   *)
(* word whose braces match only once others are gone.                      *)
MCKindOf == [Host |-> "string", Port |-> "int", Tags |-> "other"]
MCFieldOf == [host |-> "Host", HOST |-> "Host", port |-> "Port",
              tags |-> "Tags", user |-> None]
MCTexts == {<<"{", "{", "1", "}", "}">>, <<"{", "}", "}", "{", "x">>}
MCParses == [int |-> {<<"1">>}, bool |-> {<<"1">>}, float |-> {<<"1">>}]
MCInitial == <<"0">>
=============================================================================
