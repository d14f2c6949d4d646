------------------------------ MODULE Overrides -----------------------------
(***************************************************************************)
(* What runTeamCheck does to its copy of a check's definition: the team's  *)
(* attributes that are mutable become overrides, with the template braces  *)
(* stripped, and applyOverrides sets the fields they name.  It walks a Go  *)
(* map, so in any order, and stops at the first value that does not fit    *)
(* its field; the check runs either way.                                   *)
(***************************************************************************)
EXTENDS Naturals, Sequences, SequencesExt, TLC

CONSTANTS
  Fields,   \* the exported fields of the definition
  KindOf,   \* field -> string, int, bool, float or other
  Names,    \* what an override may be called
  FieldOf,  \* name -> the field that has it in whatever case, or None
  None,
  Texts,    \* what a team may write: sequences of characters
  Parses,   \* int, bool, float -> the texts strconv can read as one
  Initial   \* the text in every field of the stored definition

OverridesAssumption ==
  /\ KindOf \in [Fields -> {"string", "int", "bool", "float", "other"}]
  /\ FieldOf \in [Names -> Fields \cup {None}]
  /\ None \notin Fields
  /\ DOMAIN Parses = {"int", "bool", "float"}

VARIABLES
  attributes,     \* the team's attributes of this check
  mutableFields,  \* the names the check lets teams override
  todo,           \* the overrides still to be applied
  definition,     \* the copy: field -> the text its value came from
  status          \* filter, apply, done or failed

vars == <<attributes, mutableFields, todo, definition, status>>

Maps(S, T) == UNION {[D -> T] : D \in SUBSET S}

-----------------------------------------------------------------------------
(* strings.ReplaceAll of a pair of equal characters: of a run of them only *)
(* an odd one stays.                                                       *)
StripPairs(text, char) ==
  FoldLeft(LAMBDA kept, c :
             IF c = char /\ kept # <<>> /\ Last(kept) = char
             THEN Front(kept) ELSE Append(kept, c),
           <<>>, text)

cleanTemplateString(text) == StripPairs(StripPairs(text, "{"), "}")

Fits(name, text) ==
  LET kind == KindOf[FieldOf[name]] IN
  kind = "string" \/ (kind \in DOMAIN Parses /\ text \in Parses[kind])

allowedArgumentOverrides ==
  [a \in DOMAIN attributes \cap mutableFields |->
     cleanTemplateString(attributes[a])]

Without(name) == [a \in DOMAIN todo \ {name} |-> todo[a]]

Filter ==
  /\ status = "filter"
  /\ todo' = allowedArgumentOverrides
  /\ status' = "apply"
  /\ UNCHANGED <<attributes, mutableFields, definition>>

(* Mutant: an unknown field ends the loop, as an error would. *)
SkipUnknown_Stop(name) ==
  /\ status = "apply" /\ name \in DOMAIN todo
  /\ FieldOf[name] = None
  /\ status' = "done"
  /\ UNCHANGED <<attributes, mutableFields, todo, definition>>

SkipUnknown(name) ==
  /\ status = "apply" /\ name \in DOMAIN todo
  /\ FieldOf[name] = None
  /\ todo' = Without(name)
  /\ UNCHANGED <<attributes, mutableFields, definition, status>>

SetField(name) ==
  /\ status = "apply" /\ name \in DOMAIN todo
  /\ FieldOf[name] # None /\ Fits(name, todo[name])
  /\ definition' = [definition EXCEPT ![FieldOf[name]] = todo[name]]
  /\ todo' = Without(name)
  /\ UNCHANGED <<attributes, mutableFields, status>>

Reject(name) ==
  /\ status = "apply" /\ name \in DOMAIN todo
  /\ FieldOf[name] # None /\ ~Fits(name, todo[name])
  /\ status' = "failed"
  /\ UNCHANGED <<attributes, mutableFields, todo, definition>>

Finish ==
  /\ status = "apply" /\ todo = << >>
  /\ status' = "done"
  /\ UNCHANGED <<attributes, mutableFields, todo, definition>>

Next ==
  \/ Filter
  \/ \E name \in Names : SkipUnknown(name) \/ SetField(name) \/ Reject(name)
  \/ Finish

Init ==
  /\ attributes \in Maps(Names, Texts)
  /\ mutableFields \in SUBSET Names
  /\ definition = [f \in Fields |-> Initial]
  /\ todo = << >> /\ status = "filter"

Spec == Init /\ [][Next]_vars

-----------------------------------------------------------------------------
(* Every field keeps a value of its own type. *)
TypeOK ==
  /\ attributes \in Maps(Names, Texts) /\ mutableFields \subseteq Names
  /\ DOMAIN todo \subseteq Names
  /\ status \in {"filter", "apply", "done", "failed"}
  /\ \A f \in Fields :
       \/ definition[f] = Initial
       \/ KindOf[f] = "string"
       \/ KindOf[f] \in DOMAIN Parses /\ definition[f] \in Parses[KindOf[f]]

(* The overrides of field f that were given and allowed. *)
Given(f) == {a \in DOMAIN attributes \cap mutableFields : FieldOf[a] = f}

(* A field changes only if the check lets the team change it under a name  *)
(* of that field, and then to what the team wrote, without the braces.     *)
OnlyMutableChange ==
  \A f \in Fields :
    definition[f] # Initial =>
      \E a \in Given(f) : definition[f] = cleanTemplateString(attributes[a])

(* If no value was refused then every override that names a field took     *)
(* effect, whatever the order; if one was, there is one that does not fit, *)
(* and with nothing unfit no order can fail.                               *)
OutcomeIsRight ==
  LET unfit == {a \in DOMAIN attributes \cap mutableFields :
                  FieldOf[a] # None /\
                  ~Fits(a, cleanTemplateString(attributes[a]))}
  IN /\ status = "done" =>
          /\ unfit = {}
          /\ \A f \in Fields : Given(f) # {} =>
               \E a \in Given(f) :
                 definition[f] = cleanTemplateString(attributes[a])
     /\ status = "failed" => unfit # {}
=============================================================================
