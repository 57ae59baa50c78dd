-------------------------------- MODULE Form --------------------------------
(***************************************************************************)
(* Form (target/WEB/admin/http/js/classes/gd_data_form.js): the fields of  *)
(* one record that a page edits.  The values are kept apart from the       *)
(* fields, twice: as they are and as they were when the form was made or   *)
(* its changes were accepted.  A field has a flag for "modified", which a  *)
(* page reads to decide what to send, and a flag and a message for the     *)
(* error its last validation found.  The flags are kept by the calls that  *)
(* write values, not computed from the values, and not every call keeps    *)
(* them: Clear and a SetValue that is told not to mark leave them alone.   *)
(*                                                                         *)
(* A caller gives fields different ids, and a field no initial state.      *)
(* What a rule of a field says of a value is the constant Breaks, and a    *)
(* message is the name of the rule; the message of a custom rule is what   *)
(* the rule answers, which may be the empty string (Silent).               *)
(***************************************************************************)
EXTENDS Integers, Sequences

CONSTANTS
    Ids,                \* the ids of fields
    Values,             \* the values of fields
    Empty,              \* null and the empty string
    Undefined,          \* a value that is not there
    Number, Text,       \* the ids of fields of type number and string
    Required,           \* the ids of fields with bRequired
    Default(_),         \* default_value_ of a field
    Breaks(_, _, _),    \* whether the values break a rule of a field
    Silent(_, _)        \* whether the custom rule of a field answers ""

ASSUME UndefinedIsNoValue == Undefined \notin Values
ASSUME EmptyIsAValue == Empty \in Values
ASSUME DefaultsAreValues == \A sId \in Ids : Default(sId) \in Values

VARIABLES
    aField,             \* the ids of the fields of the form
    oValue,             \* the value of each field
    oOriginalValue,     \* the value that is not a modification
    modified,           \* the fields with the flag 2
    error,              \* the fields with the flag 1
    sError,             \* the error of each field
    untracked           \* ghost: fields written without their flag

valueVars == <<oValue, oOriginalValue>>
errorVars == <<error, sError>>
vars == <<aField, valueVars, modified, errorVars, untracked>>

NoError == ""
Rules == {"required", "number", "min", "max", "minLength", "maxLength",
          "pattern", "allowed", "custom"}

TypeOK ==
    /\ aField \subseteq Ids
    /\ oValue \in [Ids -> Values \cup {Undefined}]
    /\ oOriginalValue \in [Ids -> Values \cup {Undefined}]
    /\ modified \subseteq aField
    /\ error \subseteq aField
    /\ sError \in [Ids -> Rules \cup {NoError}]
    /\ untracked \subseteq aField

\* Fields, and the values given for some of them.
Init ==
    /\ aField \in SUBSET Ids
    /\ \E given \in SUBSET aField, v \in Values :
        oValue = [sId \in Ids |-> IF sId \in given THEN v
                                  ELSE IF sId \in aField THEN Default(sId)
                                  ELSE Undefined]
    /\ oOriginalValue = oValue
    /\ modified = {}
    /\ error = {}
    /\ sError = [sId \in Ids |-> NoError]
    /\ untracked = {}

-----------------------------------------------------------------------------
(* Values.                                                                 *)

\* Mutation of SetValues: a value that is set back stays modified.
SetValues_OnlyMarks(entries, bMarkModified) ==
    LET known == aField \cap DOMAIN entries
        changed == {sId \in known : oOriginalValue[sId] # entries[sId]}
    IN  /\ oValue' = [sId \in Ids |-> IF sId \in known THEN entries[sId]
                                      ELSE oValue[sId]]
        /\ IF bMarkModified
           THEN /\ modified' = modified \cup changed
                /\ untracked' = untracked \ known
           ELSE /\ untracked' = untracked \cup known
                /\ UNCHANGED modified
        /\ UNCHANGED <<aField, oOriginalValue, errorVars>>

\* The ids among entries that are fields get their values; SetValue is the
\* case of one entry.
SetValues(entries, bMarkModified) ==
    LET known == aField \cap DOMAIN entries
        changed == {sId \in known : oOriginalValue[sId] # entries[sId]}
    IN  /\ oValue' = [sId \in Ids |-> IF sId \in known THEN entries[sId]
                                      ELSE oValue[sId]]
        /\ IF bMarkModified
           THEN /\ modified' = (modified \ known) \cup changed
                /\ untracked' = untracked \ known
           ELSE /\ untracked' = untracked \cup known
                /\ UNCHANGED modified
        /\ UNCHANGED <<aField, oOriginalValue, errorVars>>

Set == \E given \in SUBSET Ids, bMarkModified \in BOOLEAN :
         \E entries \in [given -> Values] : SetValues(entries, bMarkModified)

\* Clear writes the defaults and no flag.
Clear ==
    /\ oValue' = [sId \in Ids |-> IF sId \in aField THEN Default(sId)
                                  ELSE oValue[sId]]
    /\ untracked' = aField
    /\ UNCHANGED <<aField, oOriginalValue, modified, errorVars>>

Reset ==
    /\ oValue' = oOriginalValue
    /\ modified' = {}
    /\ error' = {}
    /\ sError' = [sId \in Ids |-> NoError]
    /\ untracked' = {}
    /\ UNCHANGED <<aField, oOriginalValue>>

\* The errors stay.
AcceptChanges ==
    /\ oOriginalValue' = oValue
    /\ modified' = {}
    /\ untracked' = {}
    /\ UNCHANGED <<aField, oValue, errorVars>>

-----------------------------------------------------------------------------
(* Fields.                                                                 *)

AddField(sId, value) ==
    /\ sId \notin aField
    /\ aField' = aField \cup {sId}
    /\ oValue' = [oValue EXCEPT ![sId] = value]
    /\ oOriginalValue' = [oOriginalValue EXCEPT ![sId] = value]
    /\ UNCHANGED <<modified, errorVars, untracked>>

\* The value given, or the default.
Add == \E sId \in Ids : \E value \in Values : AddField(sId, value)

RemoveField(sId) ==
    /\ sId \in aField
    /\ aField' = aField \ {sId}
    /\ oValue' = [oValue EXCEPT ![sId] = Undefined]
    /\ oOriginalValue' = [oOriginalValue EXCEPT ![sId] = Undefined]
    /\ modified' = modified \ {sId}
    /\ error' = error \ {sId}
    /\ sError' = [sError EXCEPT ![sId] = NoError]
    /\ untracked' = untracked \ {sId}

-----------------------------------------------------------------------------
(* Validation.                                                             *)

\* The rules a value that is not blank is held against, in order.
RulesOf(sId) ==
    (IF sId \in Number THEN <<"number", "min", "max">>
     ELSE IF sId \in Text THEN <<"minLength", "maxLength", "pattern">>
     ELSE <<>>) \o <<"allowed", "custom">>

\* The first rule broken.
Failure(sId) ==
    LET rules == RulesOf(sId)
        broken == {i \in DOMAIN rules : Breaks(rules[i], sId, oValue)}
    IN  IF oValue[sId] \in {Empty, Undefined}
        THEN IF sId \in Required THEN "required" ELSE NoError
        ELSE IF broken = {} THEN NoError
        ELSE rules[CHOOSE i \in broken : \A j \in broken : i <= j]

\* What the field shows of it: a custom rule's own string, also an empty one.
Message(sId) ==
    IF Failure(sId) = "custom" /\ Silent(sId, oValue) THEN NoError ELSE Failure(sId)

\* Mutation of Validated: a field that is valid now keeps its message.
Validated_KeepsMessage(fields) ==
    /\ error' = (error \ fields) \cup {sId \in fields : Failure(sId) # NoError}
    /\ sError' = [sId \in Ids |-> IF sId \in fields /\ Failure(sId) # NoError
                                  THEN Message(sId)
                                  ELSE sError[sId]]
    /\ UNCHANGED <<aField, valueVars, modified, untracked>>

\* ValidateField of each field of a set.
Validated(fields) ==
    /\ error' = (error \ fields) \cup {sId \in fields : Failure(sId) # NoError}
    /\ sError' = [sId \in Ids |-> IF sId \in fields THEN Message(sId)
                                  ELSE sError[sId]]
    /\ UNCHANGED <<aField, valueVars, modified, untracked>>

ValidateField == \E sId \in aField : Validated({sId})
Validate == Validated(aField)

-----------------------------------------------------------------------------
Next ==
    \/ Set \/ Clear \/ Reset \/ AcceptChanges
    \/ Add \/ \E sId \in Ids : RemoveField(sId)
    \/ ValidateField \/ Validate

Spec == Init /\ [][Next]_vars

-----------------------------------------------------------------------------
(* What a page reads, and properties.                                      *)

Differing == {sId \in aField : oValue[sId] # oOriginalValue[sId]}

\* GetValues and GetFormData with bModifiedOnly: the fields that are sent.
GetModifiedValues == [sId \in modified |-> oValue[sId]]
GetErrors == [sId \in {f \in error : sError[f] # NoError} |-> sError[sId]]

\* What a form sends as its modified values is what differs from the values
\* it started from, through any sequence of edits, resets, accepted changes
\* and fields that come and go, for every field that was last written by a
\* call that marks: nothing that was changed is left out, nothing that was
\* changed back is sent.
ModifiedIsExact ==
    DOMAIN GetModifiedValues \ untracked = Differing \ untracked

\* The message of a field and its error flag are written in different calls.
\* No message outlives its flag, whatever was validated, reset or removed
\* since, and a flag is without a message only where a custom rule answers
\* with an empty string.
MessagesFollowFlags ==
    /\ \A sId \in Ids \ error : sError[sId] = NoError
    /\ \A sId \in error \ DOMAIN GetErrors :
          \E values \in [Ids -> Values \cup {Undefined}] : Silent(sId, values)
=============================================================================
