-------------------------- MODULE UpdateTextProofs --------------------------
(***************************************************************************)
(* The framing of the text, for every size of the shared buffer, every     *)
(* configuration of modules and every length of the values.                *)
(***************************************************************************)
EXTENDS UpdateText, TLAPS

\* Characters are dropped only when the text is full, and a full text stays
\* full; a complete text is not.
FullOrKept ==
  /\ pos = SharedSize \/
       /\ \A m \in 1 .. ModulesN : m < module => <<m, EndOfLine>> \in Stored
       /\ \A m \in 1 .. ModulesN : \A k \in DOMAIN Layouts[m] :
            /\ Layouts[m][k] = "space"
            /\ m < module \/ (m = module /\ k < next)
            => <<m, k>> \in Stored
  /\ status = "complete" => module = ModulesN + 1 /\ pos # SharedSize

Inv == TypeOK /\ FullOrKept

LEMMA Typed ==
  /\ ModulesN \in Nat
  /\ \A m \in 1 .. ModulesN : Layouts[m] \in Seq(Call)
  /\ SharedSize \in Nat \ {0}
BY LayoutAssumption DEF ModulesN

LEMMA StoredAppended ==
  ASSUME TypeOK, NEW token \in (1 .. ModulesN) \X Nat, text' = Append(text, token)
  PROVE  Stored' = Stored \cup {token} /\ text' \in Seq((1 .. ModulesN) \X Nat)
<1>1. text \in Seq((1 .. ModulesN) \X Nat)
  BY DEF TypeOK
<1>2. /\ Len(text') = Len(text) + 1
      /\ \A i \in 1 .. Len(text) : text'[i] = text[i]
      /\ text'[Len(text) + 1] = token
      /\ text' \in Seq((1 .. ModulesN) \X Nat)
  BY <1>1
<1>3. /\ Len(text) \in Nat
      /\ DOMAIN text = 1 .. Len(text) /\ DOMAIN text' = 1 .. Len(text) + 1
  BY <1>1, <1>2
<1>4. ASSUME NEW t \in Stored PROVE t \in Stored'
  <2>1. PICK i \in 1 .. Len(text) : t = text[i]
    BY <1>3 DEF Stored
  <2>2. t = text'[i] /\ i \in DOMAIN text'
    BY <1>2, <1>3, <2>1
  <2> QED
    BY <2>2 DEF Stored
<1>5. token \in Stored'
  <2>1. Len(text) + 1 \in DOMAIN text' /\ text'[Len(text) + 1] = token
    BY <1>2, <1>3
  <2> QED
    BY <2>1 DEF Stored
<1>6. ASSUME NEW t \in Stored' PROVE t \in Stored \cup {token}
  <2>1. PICK i \in 1 .. Len(text) + 1 : t = text'[i]
    BY <1>3 DEF Stored
  <2>2. CASE i = Len(text) + 1
    BY <1>2, <2>1, <2>2
  <2>3. CASE i \in 1 .. Len(text)
    BY <1>2, <1>3, <2>1, <2>3 DEF Stored
  <2> QED
    BY <1>3, <2>1, <2>2, <2>3
<1> QED
  BY <1>2, <1>4, <1>5, <1>6

LEMMA InitInv == Init => Inv
BY Typed DEF Init, Inv, TypeOK, FullOrKept, ModulesN

\* Storing a character keeps what was stored, and loses the new one only when
\* the text is full.
LEMMA CharStored ==
  ASSUME TypeOK, NEW token \in (1 .. ModulesN) \X Nat, StoreChar(token)
  PROVE  /\ pos' \in 0 .. SharedSize
         /\ text' \in Seq((1 .. ModulesN) \X Nat)
         /\ Stored \subseteq Stored'
         /\ pos' = SharedSize \/ token \in Stored'
         /\ pos = SharedSize => pos' = SharedSize
<1>1. CASE pos = SharedSize
  BY <1>1, Typed DEF StoreChar, CharFits, TypeOK, Stored
<1>2. CASE pos # SharedSize
  <2>1. pos' = pos + 1 /\ text' = Append(text, token)
    BY <1>2 DEF StoreChar, CharFits
  <2>2. pos \in 0 .. SharedSize
    BY DEF TypeOK
  <2> QED
    BY <1>2, <2>1, <2>2, StoredAppended, Typed
<1> QED
  BY <1>1, <1>2

LEMMA StepInv == Inv /\ [Next]_vars => Inv'
<1> SUFFICES ASSUME Inv, [Next]_vars PROVE Inv'
  OBVIOUS
<1>0. TypeOK /\ FullOrKept /\ module \in 1 .. ModulesN + 1 /\ next \in Nat \ {0}
  BY DEF Inv, TypeOK
<1>1. CASE WriteValue
  <2>1. /\ InModule /\ next' = next + 1 /\ UNCHANGED <<module, status>>
        /\ Layouts[module][next] = "value"
        /\ module \in 1 .. ModulesN
    BY <1>1 DEF WriteValue, InModule
  <2>2. PICK n \in Lengths :
          IF Fits(pos, n) THEN pos' = pos + n /\ text' = Append(text, <<module, next>>)
          ELSE UNCHANGED <<pos, text>>
    BY <1>1 DEF WriteValue
  <2>3. n \in Nat
    BY LayoutAssumption
  <2>4. /\ text' \in Seq((1 .. ModulesN) \X Nat) /\ Stored \subseteq Stored'
        /\ pos' \in 0 .. SharedSize
        /\ pos = SharedSize => pos' = SharedSize
    <3>1. CASE Fits(pos, n)
      <4>1. pos' = pos + n /\ text' = Append(text, <<module, next>>) /\ pos + n < SharedSize
        BY <2>2, <3>1 DEF Fits
      <4>2. <<module, next>> \in (1 .. ModulesN) \X Nat
        BY <2>1, <1>0
      <4> QED
        BY <4>1, <4>2, <2>3, <1>0, StoredAppended, Typed DEF TypeOK
    <3>2. CASE ~Fits(pos, n)
      BY <2>2, <3>2, <1>0 DEF TypeOK, Stored
    <3> QED
      BY <3>1, <3>2
  <2>5. TypeOK'
    BY <2>1, <2>4, <1>0 DEF TypeOK
  <2>6. FullOrKept'
    BY <2>1, <2>4, <1>0, Typed DEF FullOrKept, InModule
  <2> QED
    BY <2>5, <2>6 DEF Inv
<1>2. CASE WriteSpace
  <2>1. /\ InModule /\ next' = next + 1 /\ UNCHANGED <<module, status>>
        /\ StoreChar(<<module, next>>)
        /\ module \in 1 .. ModulesN
    BY <1>2 DEF WriteSpace, InModule
  <2>2. <<module, next>> \in (1 .. ModulesN) \X Nat
    BY <2>1, <1>0
  <2>3. /\ text' \in Seq((1 .. ModulesN) \X Nat) /\ Stored \subseteq Stored'
        /\ pos' \in 0 .. SharedSize
        /\ pos = SharedSize => pos' = SharedSize
        /\ pos' = SharedSize \/ <<module, next>> \in Stored'
    BY <2>1, <2>2, <1>0, CharStored
  <2>4. TypeOK'
    BY <2>1, <2>3, <1>0 DEF TypeOK
  <2>5. FullOrKept'
    <3>1. CASE pos' = SharedSize
      BY <3>1, <2>1 DEF FullOrKept, InModule
    <3>2. CASE pos' # SharedSize
      <4>1. \A m \in 1 .. ModulesN : m < module' => <<m, EndOfLine>> \in Stored'
        BY <3>2, <2>1, <2>3, <1>0 DEF FullOrKept
      <4>2. ASSUME NEW m \in 1 .. ModulesN, NEW k \in DOMAIN Layouts[m],
                   Layouts[m][k] = "space", m < module' \/ (m = module' /\ k < next')
            PROVE  <<m, k>> \in Stored'
        <5>1. k \in Nat \ {0}
          BY Typed
        <5>2. (m < module \/ (m = module /\ k < next)) \/ (m = module /\ k = next)
          BY <4>2, <5>1, <2>1, <1>0
        <5> QED
          BY <4>2, <5>2, <3>2, <2>3, <1>0 DEF FullOrKept
      <4> QED
        BY <4>1, <4>2, <2>1 DEF FullOrKept, InModule
    <3> QED
      BY <3>1, <3>2
  <2> QED
    BY <2>4, <2>5 DEF Inv
<1>3. CASE EndLine
  <2>1. /\ InModule /\ next' = 1 /\ module' = module + 1 /\ UNCHANGED status
        /\ StoreChar(<<module, EndOfLine>>)
        /\ module \in 1 .. ModulesN
        /\ next = Len(Layouts[module]) + 1
    BY <1>3 DEF EndLine, InModule
  <2>2. <<module, EndOfLine>> \in (1 .. ModulesN) \X Nat
    BY <2>1 DEF EndOfLine
  <2>3. /\ text' \in Seq((1 .. ModulesN) \X Nat) /\ Stored \subseteq Stored'
        /\ pos' \in 0 .. SharedSize
        /\ pos = SharedSize => pos' = SharedSize
        /\ pos' = SharedSize \/ <<module, EndOfLine>> \in Stored'
    BY <2>1, <2>2, <1>0, CharStored
  <2>4. TypeOK'
    BY <2>1, <2>3, <1>0, Typed DEF TypeOK
  <2>5. \A k \in DOMAIN Layouts[module] : k < next
    BY <2>1, Typed
  <2>6. FullOrKept'
    <3>1. CASE pos' = SharedSize
      BY <3>1, <2>1 DEF FullOrKept, InModule
    <3>2. CASE pos' # SharedSize
      <4>1. ASSUME NEW m \in 1 .. ModulesN, m < module'
            PROVE  <<m, EndOfLine>> \in Stored'
        <5>1. m < module \/ m = module
          BY <4>1, <2>1, <1>0
        <5> QED
          BY <5>1, <3>2, <2>3, <1>0 DEF FullOrKept
      <4>2. ASSUME NEW m \in 1 .. ModulesN, NEW k \in DOMAIN Layouts[m],
                   Layouts[m][k] = "space", m < module' \/ (m = module' /\ k < next')
            PROVE  <<m, k>> \in Stored'
        <5>1. k \in Nat \ {0}
          BY Typed
        <5>2. m < module \/ (m = module /\ k < next)
          BY <4>2, <5>1, <2>1, <2>5
        <5> QED
          BY <4>2, <5>2, <3>2, <2>3, <1>0 DEF FullOrKept
      <4> QED
        BY <4>1, <4>2, <2>1 DEF FullOrKept, InModule
    <3> QED
      BY <3>1, <3>2
  <2> QED
    BY <2>4, <2>6 DEF Inv
<1>4. CASE Terminate
  BY <1>4, <1>0 DEF Terminate, Inv, TypeOK, FullOrKept, CharFits, Stored
<1>5. CASE Again
  BY <1>5, Typed DEF Again, Inv, TypeOK, FullOrKept
<1>6. CASE UNCHANGED vars
  BY <1>6 DEF vars, Inv, TypeOK, FullOrKept, Stored
<1> QED
  BY <1>1, <1>2, <1>3, <1>4, <1>5, <1>6 DEF Next

\* Every variable keeps its type: pos never leaves the text.
THEOREM TypeCorrect == Spec => []TypeOK
<1>1. Inv => TypeOK
  BY DEF Inv
<1> QED
  BY <1>1, InitInv, StepInv, PTL DEF Spec

\* Every text the clients see has a line for each module.
THEOREM EveryModuleHasItsLine == Spec => []LinePerModule
<1>1. Inv => LinePerModule
  BY Typed DEF Inv, FullOrKept, LinePerModule
<1> QED
  BY <1>1, InitInv, StepInv, PTL DEF Spec

\* Every text the clients see has all its spaces.
THEOREM EverySpaceIsKept == Spec => []SpacesKept
<1>1. Inv => SpacesKept
  BY Typed DEF Inv, FullOrKept, SpacesKept
<1> QED
  BY <1>1, InitInv, StepInv, PTL DEF Spec
=============================================================================
