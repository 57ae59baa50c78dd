----------------------------- MODULE FormProofs -----------------------------
(***************************************************************************)
(* Proofs about Form, for any fields, values, defaults and rules.          *)
(***************************************************************************)
EXTENDS Form, TLAPS

\* A field is held against at most five rules, and each is one of the rules.
LEMMA RulesAreRules ==
    ASSUME NEW sId \in Ids
    PROVE  /\ DOMAIN RulesOf(sId) \subseteq 1..5
           /\ \A i \in DOMAIN RulesOf(sId) : RulesOf(sId)[i] \in Rules
<1>1. CASE sId \in Number
  BY <1>1 DEF RulesOf, Rules
<1>2. CASE sId \notin Number /\ sId \in Text
  BY <1>2 DEF RulesOf, Rules
<1>3. CASE sId \notin Number /\ sId \notin Text
  BY <1>3 DEF RulesOf, Rules
<1> QED  BY <1>1, <1>2, <1>3

\* Of some of the first five numbers, one is the smallest.
LEMMA SmallestOfFive ==
    ASSUME NEW S \in SUBSET (1..5), S # {}
    PROVE  \E i \in S : \A j \in S : i <= j
<1>1. CASE 1 \in S  BY <1>1
<1>2. CASE 1 \notin S /\ 2 \in S  BY <1>2
<1>3. CASE S \subseteq 3..5 /\ 3 \in S  BY <1>3
<1>4. CASE S \subseteq 4..5 /\ 4 \in S  BY <1>4
<1>5. CASE S \subseteq 5..5
  <2>1. \A j \in S : j = 5  BY <1>5
  <2>2. PICK i \in S : TRUE  OBVIOUS
  <2> QED  BY <2>1, <2>2
<1> QED  BY <1>1, <1>2, <1>3, <1>4, <1>5

\* A validation finds no error or names a rule.
LEMMA FailureIsRule ==
    ASSUME NEW sId \in Ids
    PROVE  Failure(sId) \in Rules \cup {NoError}
<1> DEFINE rules == RulesOf(sId)
           broken == {i \in DOMAIN rules : Breaks(rules[i], sId, oValue)}
           first == CHOOSE i \in broken : \A j \in broken : i <= j
<1>1. CASE oValue[sId] \in {Empty, Undefined}
  BY <1>1 DEF Failure, Rules
<1>2. CASE oValue[sId] \notin {Empty, Undefined} /\ broken = {}
  BY <1>2 DEF Failure
<1>3. CASE oValue[sId] \notin {Empty, Undefined} /\ broken # {}
  <2>1. broken \in SUBSET (1..5)
    BY RulesAreRules
  <2>2. \E i \in broken : \A j \in broken : i <= j
    <3> HIDE DEF broken
    <3> QED  BY <1>3, <2>1, SmallestOfFive
  <2>3. first \in broken
    <3> HIDE DEF broken
    <3> QED  BY <2>2
  <2>4. rules[first] \in Rules
    BY <2>3, RulesAreRules
  <2>5. Failure(sId) = rules[first]
    BY <1>3 DEF Failure
  <2> QED  BY <2>4, <2>5
<1> QED  BY <1>1, <1>2, <1>3

-----------------------------------------------------------------------------
(* Types.                                                                  *)

LEMMA InitTypeOK == Init => TypeOK
<1> SUFFICES ASSUME Init PROVE TypeOK
  OBVIOUS
<1>1. oValue \in [Ids -> Values \cup {Undefined}]
  BY DefaultsAreValues DEF Init
<1> QED  BY <1>1 DEF Init, TypeOK

\* Writing values, through whatever entries of the form.
LEMMA SetTypeOK == TypeOK /\ Set => TypeOK'
<1> SUFFICES ASSUME TypeOK,
                    NEW given \in SUBSET Ids, NEW bMarkModified \in BOOLEAN,
                    NEW entries \in [given -> Values],
                    SetValues(entries, bMarkModified)
             PROVE  TypeOK'
  BY DEF Set
<1>1. oValue' \in [Ids -> Values \cup {Undefined}]
  BY DEF TypeOK, SetValues
<1>2. modified' \subseteq aField' /\ untracked' \subseteq aField'
  BY DEF TypeOK, SetValues
<1> QED  BY <1>1, <1>2 DEF TypeOK, SetValues, errorVars

LEMMA ValidatedTypeOK ==
    ASSUME TypeOK, NEW fields \in SUBSET aField, Validated(fields)
    PROVE  TypeOK'
<1>1. sError' \in [Ids -> Rules \cup {NoError}]
  BY FailureIsRule DEF TypeOK, Validated, Message
<1>2. error' \subseteq aField'
  BY DEF TypeOK, Validated
<1> QED  BY <1>1, <1>2 DEF TypeOK, Validated, valueVars

LEMMA NextTypeOK == TypeOK /\ [Next]_vars => TypeOK'
<1> SUFFICES ASSUME TypeOK, [Next]_vars PROVE TypeOK'
  OBVIOUS
<1>1. CASE Set
  BY <1>1, SetTypeOK
<1>2. CASE Clear
  <2>1. oValue' \in [Ids -> Values \cup {Undefined}]
    BY <1>2, DefaultsAreValues DEF Clear, TypeOK
  <2> QED  BY <1>2, <2>1 DEF Clear, TypeOK, errorVars
<1>3. CASE Reset
  BY <1>3 DEF Reset, TypeOK
<1>4. CASE AcceptChanges
  BY <1>4 DEF AcceptChanges, TypeOK, errorVars
<1>5. CASE Add
  BY <1>5 DEF Add, AddField, TypeOK, errorVars
<1>6. ASSUME NEW sId \in Ids, RemoveField(sId) PROVE TypeOK'
  BY <1>6 DEF RemoveField, TypeOK
<1>7. CASE ValidateField
  BY <1>7, ValidatedTypeOK DEF ValidateField
<1>8. CASE Validate
  BY <1>8, ValidatedTypeOK DEF Validate
<1>9. CASE UNCHANGED vars
  BY <1>9 DEF vars, valueVars, errorVars, TypeOK
<1> QED  BY <1>1, <1>2, <1>3, <1>4, <1>5, <1>6, <1>7, <1>8, <1>9 DEF Next

\* Every state of a form is of its type.
THEOREM FormTyped == Spec => []TypeOK
  BY InitTypeOK, NextTypeOK, PTL DEF Spec

-----------------------------------------------------------------------------
(* Modified values.  ModifiedIsExact is inductive beside the types: a call *)
(* that leaves a flag as it is adds the field to untracked, and a call     *)
(* that takes it from there sets the flag from the two values.             *)

MInv == TypeOK /\ ModifiedIsExact

LEMMA ModifiedFields == DOMAIN GetModifiedValues = modified
  BY DEF GetModifiedValues

LEMMA SetModified == MInv /\ Set => ModifiedIsExact'
<1> SUFFICES ASSUME MInv,
                    NEW given \in SUBSET Ids, NEW bMarkModified \in BOOLEAN,
                    NEW entries \in [given -> Values],
                    SetValues(entries, bMarkModified)
             PROVE  ModifiedIsExact'
  BY DEF Set
<1> DEFINE known == aField \cap given
           changed == {sId \in known : oOriginalValue[sId] # entries[sId]}
<1>1. /\ aField' = aField /\ oOriginalValue' = oOriginalValue
      /\ aField \subseteq Ids
      /\ modified \ untracked = Differing \ untracked
  BY ModifiedFields DEF MInv, TypeOK, ModifiedIsExact, SetValues
<1>2. \A sId \in aField : oValue'[sId] = IF sId \in known THEN entries[sId]
                                         ELSE oValue[sId]
  BY <1>1 DEF SetValues
<1>3. Differing' = (Differing \ known) \cup changed
  BY <1>1, <1>2 DEF Differing
<1>4. CASE bMarkModified
  <2>1. modified' = (modified \ known) \cup changed
    BY <1>4 DEF SetValues
  <2>2. untracked' = untracked \ known
    BY <1>4 DEF SetValues
  <2>3. modified' \ untracked' = Differing' \ untracked'
    BY <1>1, <1>3, <2>1, <2>2
  <2> QED  BY <2>3, ModifiedFields DEF ModifiedIsExact, GetModifiedValues
<1>5. CASE ~bMarkModified
  <2>1. modified' = modified /\ untracked' = untracked \cup known
    BY <1>5 DEF SetValues
  <2>2. modified' \ untracked' = Differing' \ untracked'
    BY <1>1, <1>3, <2>1
  <2> QED  BY <2>2 DEF ModifiedIsExact, GetModifiedValues
<1> QED  BY <1>4, <1>5

LEMMA NextModified == MInv /\ [Next]_vars => MInv'
<1> SUFFICES ASSUME MInv, [Next]_vars PROVE ModifiedIsExact'
  BY NextTypeOK DEF MInv
<1> USE DEF GetModifiedValues
<1>0. /\ TypeOK /\ aField \subseteq Ids /\ modified \subseteq aField
      /\ modified \ untracked = Differing \ untracked
  BY DEF MInv, TypeOK, ModifiedIsExact
<1>1. CASE Set
  BY <1>1, SetModified
<1>2. CASE Clear
  BY <1>0, <1>2 DEF Clear, ModifiedIsExact, Differing
<1>3. CASE Reset
  BY <1>3 DEF Reset, ModifiedIsExact, Differing
<1>4. CASE AcceptChanges
  BY <1>4 DEF AcceptChanges, ModifiedIsExact, Differing
<1>5. CASE Add
  <2> PICK sId \in Ids, value \in Values : AddField(sId, value)
    BY <1>5 DEF Add
  <2>1. modified' = modified /\ untracked' = untracked
    BY DEF AddField
  <2>2. aField' = aField \cup {sId} /\ sId \notin aField
    BY DEF AddField
  <2>3. oValue'[sId] = oOriginalValue'[sId]
    BY <1>0 DEF AddField, TypeOK
  <2>4. \A f \in aField : /\ oValue'[f] = oValue[f]
                         /\ oOriginalValue'[f] = oOriginalValue[f]
    BY <1>0, <2>2 DEF AddField, TypeOK
  <2>5. Differing' = Differing
    BY <2>2, <2>3, <2>4 DEF Differing
  <2> QED  BY <1>0, <2>1, <2>5 DEF ModifiedIsExact
<1>6. ASSUME NEW sId \in Ids, RemoveField(sId) PROVE ModifiedIsExact'
  <2>1. Differing' = Differing \ {sId}
    BY <1>0, <1>6 DEF RemoveField, Differing, TypeOK
  <2>2. modified' = modified \ {sId} /\ untracked' = untracked \ {sId}
    BY <1>6 DEF RemoveField
  <2> QED  BY <1>0, <2>1, <2>2 DEF ModifiedIsExact
<1>7. CASE UNCHANGED <<aField, valueVars, modified, untracked>>
  BY <1>0, <1>7 DEF valueVars, ModifiedIsExact, Differing
<1>8. ValidateField \/ Validate \/ UNCHANGED vars
        => UNCHANGED <<aField, valueVars, modified, untracked>>
  BY DEF ValidateField, Validate, Validated, vars
<1> QED  BY <1>1, <1>2, <1>3, <1>4, <1>5, <1>6, <1>7, <1>8 DEF Next

\* What a form sends as modified is what differs from the values it started
\* from, for every field that was last written by a call that marks.
THEOREM FormModified == Spec => []ModifiedIsExact
<1>1. Init => MInv
  <2>1. Init => Differing = {} /\ modified = {}
    BY DEF Init, Differing
  <2> QED  BY <2>1, InitTypeOK DEF MInv, ModifiedIsExact, GetModifiedValues
<1>2. MInv => ModifiedIsExact
  BY DEF MInv
<1> QED  BY <1>1, <1>2, NextModified, PTL DEF Spec

-----------------------------------------------------------------------------
(* Errors.                                                                 *)

\* The custom rule of a field may answer with an empty string.
MayBeSilent(sId) == \E values \in [Ids -> Values \cup {Undefined}] : Silent(sId, values)

\* MessagesFollowFlags, field by field.
EInv ==
    /\ TypeOK
    /\ \A sId \in Ids :
          /\ sError[sId] # NoError => sId \in error
          /\ sId \in error /\ sError[sId] = NoError => MayBeSilent(sId)

LEMMA FlagsFollowed == EInv => MessagesFollowFlags
  BY DEF EInv, TypeOK, MessagesFollowFlags, GetErrors, MayBeSilent

LEMMA ValidatedErrors ==
    ASSUME EInv, NEW fields \in SUBSET aField, Validated(fields)
    PROVE  EInv'
<1>1. TypeOK'
  BY ValidatedTypeOK DEF EInv
<1>2. ASSUME NEW sId \in Ids
      PROVE  /\ sError'[sId] # NoError => sId \in error'
             /\ sId \in error' /\ sError'[sId] = NoError => MayBeSilent(sId)
  <2>1. CASE sId \in fields
    <3>1. /\ sId \in error' <=> Failure(sId) # NoError
          /\ sError'[sId] = Message(sId)
      BY <2>1 DEF Validated
    <3>2. Message(sId) # NoError => Failure(sId) # NoError
      BY DEF Message
    <3>3. Failure(sId) # NoError /\ Message(sId) = NoError => Silent(sId, oValue)
      BY DEF Message
    <3>4. oValue \in [Ids -> Values \cup {Undefined}]
      BY DEF EInv, TypeOK
    <3> QED  BY <3>1, <3>2, <3>3, <3>4 DEF MayBeSilent
  <2>2. CASE sId \notin fields
    BY <2>2 DEF Validated, EInv
  <2> QED  BY <2>1, <2>2
<1> QED  BY <1>1, <1>2 DEF EInv

LEMMA NextErrors == EInv /\ [Next]_vars => EInv'
<1> SUFFICES ASSUME EInv, [Next]_vars PROVE EInv'
  OBVIOUS
<1>0. TypeOK'
  BY NextTypeOK DEF EInv
<1>1. CASE UNCHANGED errorVars
  BY <1>0, <1>1 DEF EInv, errorVars
<1>2. Set \/ Clear \/ AcceptChanges \/ Add \/ UNCHANGED vars
        => UNCHANGED errorVars
  BY DEF Set, SetValues, Clear, AcceptChanges, Add, AddField, vars
<1>3. CASE Reset
  BY <1>0, <1>3 DEF Reset, EInv
<1>4. ASSUME NEW sId \in Ids, RemoveField(sId) PROVE EInv'
  BY <1>0, <1>4 DEF RemoveField, EInv, TypeOK
<1>5. CASE ValidateField
  BY <1>5, ValidatedErrors DEF ValidateField
<1>6. CASE Validate
  BY <1>6, ValidatedErrors DEF Validate
<1> QED  BY <1>1, <1>2, <1>3, <1>4, <1>5, <1>6 DEF Next

\* No message outlives its flag, and a flag is without a message only where a
\* custom rule may answer with an empty string (Form::ValidateField, Reset).
THEOREM FormErrors == Spec => []MessagesFollowFlags
<1>1. Init => EInv
  BY InitTypeOK DEF Init, EInv
<1> QED  BY <1>1, NextErrors, FlagsFollowed, PTL DEF Spec
=============================================================================
