---------------------------- MODULE ConsoleProofs ---------------------------
(***************************************************************************)
(* The parts of the web console: what a form saves, which lines are shown  *)
(* and which rows, for any number of tabs, projects, calls and writes; and *)
(* the composition MCConsole.                                              *)
(***************************************************************************)
EXTENDS MCConsole, SequenceTheorems, TLAPS

(***************************************************************************)
(* SettingsForm. The number of writes of a field tells its value: who read *)
(* the field with the number it still has, read the value it still has.    *)
(***************************************************************************)
FormState ==
  [from : {NoCopy} \cup [Field -> Nat], value : [Field -> Values],
   typed : SUBSET Field, open : BOOLEAN]
SaveState ==
  [tab : Tabs \cup {"none"}, here : BOOLEAN, body : FormState, done : 0..2]

SettingsShape ==
  /\ setting \in [Field -> Row]
  /\ copy \in [Tabs -> {NoCopy} \cup [Field -> Row]]
  /\ form \in [Tabs -> FormState]
  /\ save \in [Requests -> SaveState]
  /\ saves \in 0..MaxSaves
  /\ \A r \in Requests : save[r] # NoSave =>
       /\ save[r].tab \in Tabs /\ save[r].body.open
       /\ save[r].here => form[save[r].tab].open

\* A value read with that number of writes is no newer than the table s, and the
\* same as long as the number is.
UpToDate(s, f, write, value) ==
  /\ write <= s[f].write
  /\ write = s[f].write => value = s[f].value

FormKnows(s, b) ==
  \A f \in Field \ b.typed : b.from # NoCopy => UpToDate(s, f, b.from[f], b.value[f])

WritesTellValues ==
  /\ \A t \in Tabs : copy[t] # NoCopy =>
       \A f \in Field : UpToDate(setting, f, copy[t][f].write, copy[t][f].value)
  /\ \A t \in Tabs : FormKnows(setting, form[t])
  /\ \A r \in Requests : FormKnows(setting, save[r].body)

\* As long as no request overlapped with another or broke off, the fields it
\* has written are those of its body.
OneAtATime ==
  ~disturbed =>
    /\ \A r, q \in Active : r = q
    /\ \A r \in Active : \A i \in 1..save[r].done :
         setting[Fields[i]].value = save[r].body.value[Fields[i]]
    /\ Active = {} => \A f \in Field : setting[f].value = applied[f]

SettingsInv == SettingsShape /\ WritesTellValues /\ OneAtATime

LEMMA TwoFields ==
  /\ Len(Fields) = 2 /\ Field = {Fields[1], Fields[2]} /\ Fields[1] # Fields[2]
  /\ \A i \in 1..2 : Fields[i] \in Field
  BY DEF Fields, Field

LEMMA ClosedForm == Closed \in FormState /\ NoSave \in SaveState
<1>1. [f \in Field |-> Default] \in [Field -> Values]
  BY SettingsAssumption DEF SettingsAssumption
<1>2. Closed \in FormState
  BY <1>1 DEF Closed, FormState
<1> QED BY <1>2 DEF NoSave, SaveState

LEMMA SettingsInvInit == SettingsInit => SettingsInv
<1> SUFFICES ASSUME SettingsInit PROVE SettingsInv
  OBVIOUS
<1>1. /\ setting = [f \in Field |-> [value |-> Default, write |-> 0]]
      /\ copy = [t \in Tabs |-> NoCopy] /\ form = [t \in Tabs |-> Closed]
      /\ save = [r \in Requests |-> NoSave] /\ saves = 0
      /\ applied = [f \in Field |-> Default]
  BY DEF SettingsInit
<1>2. SettingsShape
  <2>1. setting \in [Field -> Row]
    BY <1>1, SettingsAssumption DEF Row, SettingsAssumption
  <2> QED BY <1>1, <2>1, ClosedForm, SettingsAssumption DEF SettingsShape, SettingsAssumption
<1>3. WritesTellValues
  BY <1>1 DEF WritesTellValues, FormKnows, Closed, NoSave
<1>4. Active = {}
  BY <1>1 DEF Active
<1>5. OneAtATime
  BY <1>1, <1>4 DEF OneAtATime
<1> QED BY <1>2, <1>3, <1>5 DEF SettingsInv

LEMMA OpenKeeps ==
  ASSUME SettingsInv, NEW t \in Tabs, Open(t) PROVE SettingsInv'
<1> DEFINE from == IF copy[t] = NoCopy THEN NoCopy ELSE [f \in Field |-> copy[t][f].write]
           new == [from |-> from, value |-> Filled(t), typed |-> {}, open |-> TRUE]
<1>1. /\ form' = [form EXCEPT ![t] = new]
      /\ save' = [r \in Requests |-> IF save[r].tab = t THEN [save[r] EXCEPT !.here = FALSE]
                                     ELSE save[r]]
      /\ UNCHANGED <<setting, copy, saves, applied, disturbed>>
  BY DEF Open
<1>2. /\ from \in {NoCopy} \cup [Field -> Nat] /\ Filled(t) \in [Field -> Values]
      /\ copy[t] = NoCopy => from = NoCopy
      /\ copy[t] # NoCopy => \A f \in Field : /\ from[f] = copy[t][f].write
                                              /\ Filled(t)[f] = copy[t][f].value
  BY SettingsAssumption DEF SettingsInv, SettingsShape, Row, Filled, SettingsAssumption
<1> HIDE DEF from
<1>3. /\ new \in FormState /\ new.open /\ new.from = from
      /\ new.value = Filled(t) /\ new.typed = {}
  BY <1>2 DEF FormState
<1> HIDE DEF new
<1>4. form' \in [Tabs -> FormState] /\ form'[t] = new
      /\ \A u \in Tabs \ {t} : form'[u] = form[u]
  BY <1>1, <1>3 DEF SettingsInv, SettingsShape
<1>5. ASSUME NEW r \in Requests
      PROVE  /\ save'[r] \in SaveState /\ save'[r].tab = save[r].tab
             /\ save'[r].body = save[r].body /\ save'[r].done = save[r].done
             /\ save'[r].here => save[r].here /\ save[r].tab # t
             /\ save'[r] = NoSave <=> save[r] = NoSave
  <2>1. save[r] \in SaveState
    BY DEF SettingsInv, SettingsShape
  <2>2. CASE save[r].tab # t
    <3>1. save'[r] = save[r]
      BY <1>1, <2>2
    <3> QED BY <2>1, <2>2, <3>1
  <2>3. CASE save[r].tab = t
    <3>1. save'[r] = [save[r] EXCEPT !.here = FALSE]
      BY <1>1, <2>3
    <3>2. /\ save'[r] \in SaveState /\ save'[r].tab = save[r].tab
          /\ save'[r].body = save[r].body /\ save'[r].done = save[r].done
          /\ save'[r].here = FALSE
      BY <2>1, <3>1 DEF SaveState
    <3>3. save[r] # NoSave
      BY <2>3, SettingsAssumption DEF NoSave, SettingsAssumption
    <3>4. save[r] # NoSave => save'[r] # NoSave
      BY <3>2 DEF SettingsInv, SettingsShape, NoSave, Closed
    <3> QED BY <3>2, <3>3, <3>4
  <2> QED BY <2>2, <2>3
<1>6. SettingsShape'
  <2>1. save' \in [Requests -> SaveState]
    BY <1>1, <1>5
  <2>2. ASSUME NEW r \in Requests, save'[r] # NoSave
        PROVE  /\ save'[r].tab \in Tabs /\ save'[r].body.open
               /\ save'[r].here => form'[save'[r].tab].open
    BY <1>4, <1>5, <2>2 DEF SettingsInv, SettingsShape
  <2> QED BY <1>1, <1>4, <2>1, <2>2 DEF SettingsInv, SettingsShape
<1>7. FormKnows(setting, new)
  BY <1>2, <1>3 DEF FormKnows, SettingsInv, WritesTellValues
<1>8. WritesTellValues'
  BY <1>1, <1>4, <1>5, <1>7 DEF SettingsInv, WritesTellValues
<1>9. OneAtATime'
  <2>1. Active' = Active
    BY <1>5 DEF Active
  <2>2. \A r \in Active : save'[r].done = save[r].done /\ save'[r].body = save[r].body
    BY <1>5 DEF Active
  <2> QED BY <1>1, <2>1, <2>2 DEF SettingsInv, OneAtATime
<1> QED BY <1>6, <1>8, <1>9 DEF SettingsInv

LEMMA ReadKeeps ==
  ASSUME SettingsInv, NEW t \in Tabs, ReadSettings(t) PROVE SettingsInv'
<1>1. /\ copy' = [copy EXCEPT ![t] = setting]
      /\ UNCHANGED <<setting, form, save, saves, applied, disturbed>>
  BY DEF ReadSettings
<1>2. SettingsShape'
  BY <1>1 DEF SettingsInv, SettingsShape
<1>3. /\ copy'[t] = setting /\ \A u \in Tabs \ {t} : copy'[u] = copy[u]
  BY <1>1 DEF SettingsInv, SettingsShape
<1>4. \A f \in Field : UpToDate(setting, f, setting[f].write, setting[f].value)
  BY DEF UpToDate, SettingsInv, SettingsShape, Row
<1>5. WritesTellValues'
  BY <1>1, <1>3, <1>4 DEF SettingsInv, WritesTellValues
<1>6. OneAtATime'
  BY <1>1 DEF SettingsInv, OneAtATime, Active
<1> QED BY <1>2, <1>5, <1>6 DEF SettingsInv

LEMMA TypeKeeps ==
  ASSUME SettingsInv, NEW t \in Tabs, NEW f \in Field, NEW v \in Values, Type(t, f, v)
  PROVE  SettingsInv'
<1> DEFINE new == form'[t]
<1>1. /\ form' = [form EXCEPT ![t].value[f] = v, ![t].typed = @ \cup {f}]
      /\ UNCHANGED <<setting, copy, save, saves, applied, disturbed>>
  BY DEF Type
<1>2. form[t] \in FormState /\ form[t].open \in BOOLEAN
  BY DEF SettingsInv, SettingsShape, FormState
<1> DEFINE value == [form[t].value EXCEPT ![f] = v]
           typed == form[t].typed \cup {f}
<1>8. value \in [Field -> Values] /\ typed \in SUBSET Field
  BY <1>2 DEF FormState
<1> HIDE DEF value, typed
<1>9. form \in [Tabs -> FormState]
  BY DEF SettingsInv, SettingsShape
<1>10. form' = [form EXCEPT ![t] = [form[t] EXCEPT !.value = value, !.typed = typed]]
  BY <1>1, <1>2, <1>9 DEF FormState, value, typed
<1>11. new = [form[t] EXCEPT !.value = value, !.typed = typed]
  BY <1>9, <1>10
<1>12. /\ new.from = form[t].from /\ new.open = form[t].open
       /\ new.typed = typed /\ new.value = value /\ new \in FormState
  BY <1>2, <1>8, <1>11 DEF FormState
<1>13. \A u \in Tabs \ {t} : form'[u] = form[u]
  BY <1>9, <1>10
<1>14. form' \in [Tabs -> FormState]
  BY <1>2, <1>8, <1>9, <1>10, <1>11, <1>12
<1>3. /\ new.from = form[t].from /\ new.open = form[t].open
      /\ new.typed = form[t].typed \cup {f}
      /\ new.value = [form[t].value EXCEPT ![f] = v]
      /\ \A u \in Tabs \ {t} : form'[u] = form[u]
      /\ new \in FormState /\ form' \in [Tabs -> FormState]
  BY <1>12, <1>13, <1>14 DEF value, typed
<1> HIDE DEF new
<1>4. SettingsShape'
  <2>1. \A u \in Tabs : form'[u].open = form[u].open
    BY <1>3 DEF new
  <2> QED BY <1>1, <1>3, <2>1 DEF SettingsInv, SettingsShape
<1>5. FormKnows(setting, new)
  BY <1>2, <1>3 DEF SettingsInv, WritesTellValues, FormKnows, FormState
<1>6. WritesTellValues'
  BY <1>1, <1>3, <1>5 DEF SettingsInv, WritesTellValues, new
<1>7. OneAtATime'
  BY <1>1 DEF SettingsInv, OneAtATime, Active
<1> QED BY <1>4, <1>6, <1>7 DEF SettingsInv

LEMMA SaveKeeps ==
  ASSUME SettingsInv, NEW t \in Tabs, NEW r \in Requests, Save(t, r)
  PROVE  SettingsInv'
<1> DEFINE new == [tab |-> t, here |-> TRUE, body |-> form[t], done |-> 0]
<1>1. /\ save' = [save EXCEPT ![r] = new] /\ saves' = saves + 1 /\ saves < MaxSaves
      /\ form[t].open /\ save[r] = NoSave
      /\ disturbed' = (Active # {})
      /\ UNCHANGED <<setting, copy, form, applied>>
  BY DEF Save
<1>2. /\ new \in SaveState /\ new.tab = t /\ new.body = form[t] /\ new.done = 0
      /\ new # NoSave
  <2>1. form[t] \in FormState
    BY DEF SettingsInv, SettingsShape
  <2>2. new.tab # NoSave.tab
    BY SettingsAssumption DEF NoSave, SettingsAssumption
  <2> QED BY <2>1, <2>2 DEF SaveState
<1> HIDE DEF new
<1>3. /\ save' \in [Requests -> SaveState] /\ save'[r] = new
      /\ \A q \in Requests \ {r} : save'[q] = save[q]
  BY <1>1, <1>2 DEF SettingsInv, SettingsShape
<1>4. SettingsShape'
  <2>1. saves' \in 0..MaxSaves
    BY <1>1, SettingsAssumption DEF SettingsInv, SettingsShape, SettingsAssumption
  <2> QED BY <1>1, <1>2, <1>3, <2>1 DEF SettingsInv, SettingsShape
<1>5. WritesTellValues'
  BY <1>1, <1>2, <1>3 DEF SettingsInv, WritesTellValues
<1>6. Active' = Active \cup {r}
  BY <1>2, <1>3 DEF Active
<1>7. OneAtATime'
  <2> SUFFICES ASSUME Active = {} PROVE OneAtATime'
    BY <1>1 DEF OneAtATime
  <2> QED BY <1>2, <1>3, <1>6 DEF OneAtATime
<1> QED BY <1>4, <1>5, <1>7 DEF SettingsInv

LEMMA WriteFieldKeeps ==
  ASSUME SettingsInv, NEW r \in Requests, WriteField(r) PROVE SettingsInv'
<1> DEFINE k == save[r].done + 1
           f == Fields[k]
           row == [value |-> save[r].body.value[f], write |-> setting[f].write + 1]
<1>1. /\ save[r] # NoSave /\ save[r].done < 2
      /\ setting' = [setting EXCEPT ![f] = row]
      /\ save' = [save EXCEPT ![r].done = @ + 1]
      /\ UNCHANGED <<copy, form, saves, applied, disturbed>>
  BY TwoFields DEF WriteField
<1>2. save[r] \in SaveState
  BY DEF SettingsInv, SettingsShape
<1>3. k \in 1..2 /\ f \in Field
  BY <1>1, <1>2, TwoFields DEF SaveState
<1>4. /\ row \in Row /\ row.value = save[r].body.value[f]
      /\ row.write = setting[f].write + 1 /\ setting[f].write \in Nat
  BY <1>2, <1>3 DEF SettingsInv, SettingsShape, SaveState, FormState, Row
<1> HIDE DEF row
<1>5. /\ setting' \in [Field -> Row] /\ setting'[f] = row
      /\ \A g \in Field \ {f} : setting'[g] = setting[g]
  BY <1>1, <1>3, <1>4 DEF SettingsInv, SettingsShape
<1>6. /\ save' \in [Requests -> SaveState]
      /\ save'[r].tab = save[r].tab /\ save'[r].here = save[r].here
      /\ save'[r].body = save[r].body /\ save'[r].done = k
      /\ \A q \in Requests \ {r} : save'[q] = save[q]
  <2>1. [save[r] EXCEPT !.done = k] \in SaveState
    BY <1>2, <1>3 DEF SaveState
  <2>2. save' = [save EXCEPT ![r] = [save[r] EXCEPT !.done = k]]
    BY <1>1
  <2> HIDE DEF k
  <2> QED BY <1>2, <2>1, <2>2 DEF SettingsInv, SettingsShape, SaveState
<1>7. save'[r] # NoSave
  <2>1. save'[r].body.open /\ ~NoSave.body.open
    BY <1>1, <1>6 DEF SettingsInv, SettingsShape, NoSave, Closed
  <2> QED BY <2>1
<1>8. Active' = Active
  BY <1>1, <1>6, <1>7 DEF Active
<1>9. SettingsShape'
  <2>1. ASSUME NEW q \in Requests, save'[q] # NoSave
        PROVE  /\ save'[q].tab \in Tabs /\ save'[q].body.open
               /\ save'[q].here => form[save'[q].tab].open
    <3>1. CASE q = r
      BY <1>1, <1>6, <3>1 DEF SettingsInv, SettingsShape
    <3>2. CASE q # r
      BY <1>6, <2>1, <3>2 DEF SettingsInv, SettingsShape
    <3> QED BY <3>1, <3>2
  <2> QED BY <1>1, <1>5, <1>6, <2>1 DEF SettingsInv, SettingsShape
<1>10. ASSUME NEW g \in Field, NEW w \in Nat, NEW v, UpToDate(setting, g, w, v)
       PROVE  UpToDate(setting', g, w, v)
  <2>1. CASE g = f
    BY <1>4, <1>5, <1>10, <2>1 DEF UpToDate
  <2>2. CASE g # f
    BY <1>5, <1>10, <2>2 DEF UpToDate
  <2> QED BY <2>1, <2>2
<1>11. ASSUME NEW b \in FormState, FormKnows(setting, b) PROVE FormKnows(setting', b)
  <2> SUFFICES ASSUME NEW g \in Field \ b.typed, b.from # NoCopy
               PROVE  UpToDate(setting', g, b.from[g], b.value[g])
    BY DEF FormKnows
  <2>1. b.from[g] \in Nat
    BY DEF FormState
  <2> QED BY <1>10, <1>11, <2>1 DEF FormKnows
<1>12. WritesTellValues'
  <2>1. ASSUME NEW t \in Tabs, copy[t] # NoCopy, NEW g \in Field
        PROVE  UpToDate(setting', g, copy[t][g].write, copy[t][g].value)
    <3>1. copy[t][g] \in Row
      BY <2>1 DEF SettingsInv, SettingsShape
    <3>2. copy[t][g].write \in Nat
      BY <3>1 DEF Row
    <3> QED BY <1>10, <2>1, <3>2 DEF SettingsInv, WritesTellValues
  <2>2. ASSUME NEW t \in Tabs PROVE FormKnows(setting', form[t])
    BY <1>11 DEF SettingsInv, SettingsShape, WritesTellValues
  <2>3. ASSUME NEW q \in Requests PROVE FormKnows(setting', save'[q].body)
    <3>1. save'[q].body = save[q].body /\ save[q].body \in FormState
      BY <1>6 DEF SettingsInv, SettingsShape, SaveState
    <3> QED BY <1>11, <3>1 DEF SettingsInv, WritesTellValues
  <2> QED BY <1>1, <2>1, <2>2, <2>3 DEF WritesTellValues
<1>13. OneAtATime'
  <2> SUFFICES ASSUME ~disturbed PROVE OneAtATime'
    BY <1>1 DEF OneAtATime
  <2>1. r \in Active
    BY <1>1 DEF Active
  <2>2. \A q \in Active : q = r
    BY <2>1 DEF SettingsInv, OneAtATime
  <2>3. ASSUME NEW i \in 1..k
        PROVE  setting'[Fields[i]].value = save[r].body.value[Fields[i]]
    <3>1. CASE i = k
      BY <1>4, <1>5, <3>1
    <3>2. CASE i # k
      <4>1. i \in 1..save[r].done /\ i \in 1..2
        BY <1>2, <1>3, <2>3, <3>2 DEF SaveState
      <4>2. setting[Fields[i]].value = save[r].body.value[Fields[i]]
        BY <2>1, <4>1 DEF SettingsInv, OneAtATime
      <4>3. Fields[i] # f /\ Fields[i] \in Field
        BY <1>3, <3>2, <4>1, TwoFields
      <4> QED BY <1>5, <4>2, <4>3
    <3> QED BY <3>1, <3>2
  <2> QED BY <1>6, <1>8, <2>1, <2>2, <2>3 DEF OneAtATime
<1> QED BY <1>9, <1>12, <1>13 DEF SettingsInv

\* A request that is over, completely or not.
LEMMA EndKeeps ==
  ASSUME SettingsInv, NEW r \in Requests, Saved(r) \/ SaveFails(r)
  PROVE  SettingsInv'
<1>1. /\ save' = [save EXCEPT ![r] = NoSave] /\ save[r] # NoSave
      /\ UNCHANGED <<setting, copy, form, saves>>
  BY DEF Saved, SaveFails
<1>2. /\ save' \in [Requests -> SaveState] /\ save'[r] = NoSave
      /\ \A q \in Requests \ {r} : save'[q] = save[q]
  BY <1>1, ClosedForm DEF SettingsInv, SettingsShape
<1>3. SettingsShape'
  BY <1>1, <1>2 DEF SettingsInv, SettingsShape
<1>4. WritesTellValues'
  <2>1. FormKnows(setting, NoSave.body)
    BY DEF FormKnows, NoSave, Closed
  <2> QED BY <1>1, <1>2, <2>1 DEF SettingsInv, WritesTellValues
<1>5. Active' = Active \ {r} /\ r \in Active
  BY <1>1, <1>2 DEF Active
<1>6. OneAtATime'
  <2>1. CASE SaveFails(r)
    BY <2>1 DEF SaveFails, OneAtATime
  <2>2. CASE Saved(r)
    <3>1. save[r].done = 2 /\ applied' = save[r].body.value /\ UNCHANGED disturbed
      BY <2>2, TwoFields DEF Saved
    <3> SUFFICES ASSUME ~disturbed PROVE OneAtATime'
      BY <3>1 DEF OneAtATime
    <3>2. Active' = {}
      BY <1>5 DEF SettingsInv, OneAtATime
    <3>3. \A i \in 1..2 : setting[Fields[i]].value = applied'[Fields[i]]
      BY <1>5, <3>1 DEF SettingsInv, OneAtATime
    <3>4. \A f \in Field : setting[f].value = applied'[f]
      BY <3>3, TwoFields
    <3> QED BY <1>1, <3>2, <3>4 DEF OneAtATime
  <2> QED BY <2>1, <2>2
<1> QED BY <1>3, <1>4, <1>6 DEF SettingsInv

LEMMA SettingsInvStep == SettingsInv /\ [SettingsNext]_settingsVars => SettingsInv'
<1>1. SettingsInv /\ UNCHANGED settingsVars => SettingsInv'
  BY DEF settingsVars, SettingsInv, SettingsShape, WritesTellValues, OneAtATime, Active
<1> QED BY <1>1, OpenKeeps, ReadKeeps, TypeKeeps, SaveKeeps, WriteFieldKeeps, EndKeeps
        DEF SettingsNext

LEMMA SettingsInvImplies ==
  SettingsInv => SettingsTypeOK /\ UntypedIsKept /\ SettingsOfOneSave
<1> SUFFICES ASSUME SettingsInv PROVE SettingsTypeOK /\ UntypedIsKept /\ SettingsOfOneSave
  OBVIOUS
<1>1. SettingsTypeOK
  BY TwoFields DEF SettingsInv, SettingsShape, SettingsTypeOK, FormState, SaveState
<1>2. UntypedIsKept
  <2> SUFFICES ASSUME NEW r \in Active, NEW i \in (save[r].done + 1)..Len(Fields),
                      Fields[i] \notin save[r].body.typed, save[r].body.from # NoCopy,
                      save[r].body.from[Fields[i]] = setting[Fields[i]].write
               PROVE  save[r].body.value[Fields[i]] = setting[Fields[i]].value
    BY DEF UntypedIsKept
  <2>1. r \in Requests /\ save[r] \in SaveState
    BY DEF Active, SettingsInv, SettingsShape
  <2>2. i \in 1..2
    BY <2>1, TwoFields DEF SaveState
  <2>3. FormKnows(setting, save[r].body)
    BY <2>1 DEF SettingsInv, WritesTellValues
  <2> QED BY <2>2, <2>3, TwoFields DEF FormKnows, UpToDate
<1>3. SettingsOfOneSave
  BY DEF SettingsInv, OneAtATime, SettingsOfOneSave
<1> QED BY <1>1, <1>2, <1>3

\* A field nobody typed is saved as the table has it, for any number of tabs,
\* values and saves, unless it was written since the form's copy was read.
THEOREM UntypedStaysAsItIs == SettingsSpec => [](SettingsTypeOK /\ UntypedIsKept)
  BY SettingsInvInit, SettingsInvStep, SettingsInvImplies, PTL DEF SettingsSpec

\* Access mode and domain are those of one request, for any number of tabs and
\* saves, unless it overlapped with another or broke off.
THEOREM SettingsStayTogether == SettingsSpec => []SettingsOfOneSave
  BY SettingsInvInit, SettingsInvStep, SettingsInvImplies, PTL DEF SettingsSpec

(***************************************************************************)
(* LogStream. What is on the page and what is on its way make one sequence *)
(* of lines, to which the next chunk will fit.                             *)
(***************************************************************************)
SourceState ==
  [project : Projects \cup {NoProject}, state : {"connecting", "open", "ending", "closed"},
   next : Nat \ {0}, cut : BOOLEAN]

LogShape ==
  /\ logged \in [Projects -> 0..MaxLog]
  /\ selected \in Projects \cup {NoProject} /\ mode \in {"live", "build"}
  /\ lines \in Seq(Message) /\ Len(lines) <= Keep + 1 /\ wire \in Seq(Message)
  /\ source \in SourceState
  /\ source.state # "closed" =>
       source.project = selected /\ mode = "live" /\ selected \in Projects

\* The lines of one project, in order, none missing and none twice.
InOrder(s, p) ==
  /\ \A i \in 1..Len(s) : s[i].project = p
  /\ \A i \in 1..(Len(s) - 1) : Follows(s[i], s[i + 1])

\* The message after which the next chunk of a stream goes on.
Joins(m, src) ==
  \/ src.cut /\ m.part = "head" /\ m.n = src.next
  \/ ~src.cut /\ m.part \in {"whole", "rest"} /\ m.n = src.next - 1

Arriving == lines \o wire

StreamInOrder ==
  mode = "live" /\ selected # NoProject =>
    /\ InOrder(Arriving, selected)
    /\ source.state = "connecting" => lines = <<>> /\ wire = <<>>
    /\ source.state = "open" /\ Len(Arriving) > 0 => Joins(Arriving[Len(Arriving)], source)

LogInv == LogShape /\ StreamInOrder

\* The end of a sequence in order is in order, and ends with the same message.
LEMMA SuffixInOrder ==
  ASSUME NEW s \in Seq(Message), NEW t \in Seq(Message), NEW k \in Nat, NEW p,
         Len(s) = Len(t) + k, \A i \in 1..Len(t) : t[i] = s[i + k],
         InOrder(s, p)
  PROVE  InOrder(t, p) /\ (Len(t) > 0 => t[Len(t)] = s[Len(s)])
<1>1. Len(s) \in Nat /\ Len(t) \in Nat
  OBVIOUS
<1>2. \A i \in 1..Len(t) : t[i].project = p
  BY <1>1 DEF InOrder
<1>3. ASSUME NEW i \in 1..(Len(t) - 1) PROVE Follows(t[i], t[i + 1])
  <2>1. /\ i \in 1..Len(t) /\ i + 1 \in 1..Len(t) /\ i + k \in 1..(Len(s) - 1)
        /\ (i + 1) + k = (i + k) + 1
    BY <1>1, <1>3
  <2>2. t[i] = s[i + k]
    BY <2>1
  <2>3. t[i + 1] = s[(i + 1) + k]
    BY <2>1
  <2>4. Follows(s[i + k], s[(i + k) + 1])
    BY <2>1 DEF InOrder
  <2> QED BY <2>1, <2>2, <2>3, <2>4
<1> QED BY <1>1, <1>2, <1>3 DEF InOrder

LEMMA LogInvInit == LogInit => LogInv
<1> SUFFICES ASSUME LogInit PROVE LogInv
  OBVIOUS
<1>1. NoSource \in SourceState /\ NoSource.state = "closed"
  BY DEF NoSource, SourceState
<1>2. LogShape
  BY <1>1, LogAssumption DEF LogInit, LogShape, LogAssumption
<1>3. StreamInOrder
  BY DEF LogInit, StreamInOrder
<1> QED BY <1>2, <1>3 DEF LogInv

\* A stream that is opened begins with an empty page.
LEMMA OpenStreamKeeps ==
  ASSUME LogInv, NEW p \in Projects \cup {NoProject}, NEW m \in {"live", "build"},
         selected' = p, mode' = m, UNCHANGED logged, OpenStream(p, m)
  PROVE  LogInv'
<1>1. wire' = <<>>
  BY DEF OpenStream
<1>2. CASE p = NoProject \/ m # "live"
  <2>1. source' = NoSource /\ UNCHANGED lines
    BY <1>2 DEF OpenStream
  <2>2. NoSource \in SourceState /\ NoSource.state = "closed"
    BY DEF NoSource, SourceState
  <2>3. LogShape'
    BY <1>1, <2>1, <2>2 DEF LogInv, LogShape
  <2>4. StreamInOrder'
    BY <1>2 DEF StreamInOrder
  <2> QED BY <2>3, <2>4 DEF LogInv
<1>3. CASE ~(p = NoProject \/ m # "live")
  <2> DEFINE new == [NoSource EXCEPT !.project = p, !.state = "connecting"]
  <2>1. source' = new /\ lines' = <<>>
    BY <1>3 DEF OpenStream
  <2>2. new \in SourceState /\ new.state = "connecting" /\ new.project = p
    <3>1. NoSource \in SourceState
      BY DEF NoSource, SourceState
    <3> QED BY <3>1 DEF SourceState
  <2> HIDE DEF new
  <2>3. LogShape'
    BY <1>1, <1>3, <2>1, <2>2, LogAssumption DEF LogInv, LogShape, LogAssumption
  <2>4. Arriving' = <<>>
    BY <1>1, <2>1 DEF Arriving
  <2>5. InOrder(<<>>, p) /\ Len(<<>>) = 0
    BY DEF InOrder
  <2>6. StreamInOrder'
    BY <1>1, <2>1, <2>2, <2>4, <2>5 DEF StreamInOrder
  <2> QED BY <2>3, <2>6 DEF LogInv
<1> QED BY <1>2, <1>3

\* What happens at the far end of a stream and changes no line.
LEMMA SourceKeeps ==
  ASSUME LogInv, Follow \/ EndStream \/ OnError \/ \E p \in Projects : LogLine(p)
  PROVE  LogInv'
<1>1. UNCHANGED <<selected, mode, lines, wire>>
  BY DEF Follow, EndStream, OnError, LogLine
<1>2. Arriving' = Arriving
  BY <1>1 DEF Arriving
<1>3. source \in SourceState
  BY DEF LogInv, LogShape
<1>4. ASSUME NEW p \in Projects, LogLine(p) PROVE LogInv'
  <2>1. logged' \in [Projects -> 0..MaxLog] /\ UNCHANGED source
    BY <1>4, LogAssumption DEF LogLine, LogInv, LogShape, LogAssumption
  <2> QED BY <1>1, <1>2, <2>1 DEF LogInv, LogShape, StreamInOrder
<1>5. ASSUME Follow PROVE LogInv'
  <2> DEFINE n == logged[source.project]
             k == IF n > TailLines THEN n - TailLines + 1 ELSE 1
  <2>1. /\ source' = [source EXCEPT !.state = "open", !.next = k]
        /\ source.state = "connecting" /\ UNCHANGED logged
    BY <1>5 DEF Follow
  <2>2. n \in Nat
    BY <2>1, LogAssumption DEF LogInv, LogShape, LogAssumption
  <2>3. k \in Nat \ {0}
    BY <2>2, LogAssumption DEF LogAssumption
  <2> HIDE DEF k
  <2>4. source' \in SourceState /\ source'.state = "open" /\ source'.project = source.project
    BY <1>3, <2>1, <2>3 DEF SourceState
  <2>5. mode = "live" /\ selected # NoProject => Len(Arriving) = 0
    BY <2>1 DEF LogInv, StreamInOrder, Arriving
  <2> QED BY <1>1, <1>2, <2>1, <2>4, <2>5 DEF LogInv, LogShape, StreamInOrder
<1>6. ASSUME EndStream PROVE LogInv'
  <2>1. /\ source' \in SourceState /\ source'.state = "ending"
        /\ source'.project = source.project /\ source.state # "closed" /\ UNCHANGED logged
    BY <1>3, <1>6 DEF EndStream, SourceState
  <2> QED BY <1>1, <1>2, <2>1 DEF LogInv, LogShape, StreamInOrder
<1>7. ASSUME OnError PROVE LogInv'
  <2>1. /\ source' \in SourceState /\ source'.state = "closed" /\ UNCHANGED logged
    BY <1>7 DEF OnError, NoSource, SourceState
  <2> QED BY <1>1, <1>2, <2>1 DEF LogInv, LogShape, StreamInOrder
<1> QED BY <1>4, <1>5, <1>6, <1>7

\* Without a container the page gets one message, and no more.
LEMMA WaitingKeeps == ASSUME LogInv, Waiting PROVE LogInv'
<1> DEFINE m == [project |-> source.project, n |-> 0, part |-> "waiting"]
<1>1. /\ wire' = <<m>> /\ source' = [source EXCEPT !.state = "ending"]
      /\ source.state = "connecting" /\ UNCHANGED <<logged, selected, mode, lines>>
  BY DEF Waiting
<1>2. source.project = selected /\ mode = "live" /\ selected \in Projects
  BY <1>1 DEF LogInv, LogShape
<1>3. m \in Message /\ m.project = selected
  BY <1>2, LogAssumption DEF Message, LogAssumption
<1> HIDE DEF m
<1>4. source' \in SourceState /\ source'.state = "ending" /\ source'.project = selected
  BY <1>1, <1>2 DEF LogInv, LogShape, SourceState
<1>5. LogShape'
  BY <1>1, <1>2, <1>3, <1>4 DEF LogInv, LogShape
<1>6. lines = <<>>
  BY <1>1, <1>2, LogAssumption DEF LogInv, StreamInOrder, LogAssumption
<1>7. Arriving' = <<m>>
  BY <1>1, <1>3, <1>6 DEF Arriving
<1>8. InOrder(<<m>>, selected)
  BY <1>3 DEF InOrder
<1>9. StreamInOrder'
  BY <1>1, <1>4, <1>7, <1>8 DEF StreamInOrder
<1> QED BY <1>5, <1>9 DEF LogInv

\* A chunk goes on where the last one stopped.
LEMMA ChunkKeeps == ASSUME LogInv, NEW cut \in BOOLEAN, Chunk(cut) PROVE LogInv'
<1> DEFINE k == source.next
           piece == IF cut THEN "head" ELSE IF source.cut THEN "rest" ELSE "whole"
           m == [project |-> source.project, n |-> k, part |-> piece]
<1>1. /\ source.state = "open" /\ k <= logged[source.project] /\ (cut => ~source.cut)
      /\ wire' = Append(wire, m)
      /\ source' = IF cut THEN [source EXCEPT !.cut = TRUE]
                   ELSE [source EXCEPT !.cut = FALSE, !.next = k + 1]
      /\ UNCHANGED <<logged, selected, mode, lines>>
  BY DEF Chunk
<1>2. /\ source.project = selected /\ mode = "live" /\ selected \in Projects
      /\ selected # NoProject
  BY <1>1, LogAssumption DEF LogInv, LogShape, LogAssumption
<1>3. source \in SourceState /\ k \in Nat \ {0} /\ source.cut \in BOOLEAN
  BY DEF LogInv, LogShape, SourceState
<1>4. k \in 0..MaxLog
  BY <1>1, <1>2, <1>3, LogAssumption DEF LogInv, LogShape, LogAssumption
<1>5. piece \in {"whole", "head", "rest"}
  OBVIOUS
<1>6. /\ m \in Message /\ m.project = selected /\ m.n = k /\ m.part = piece
  BY <1>2, <1>4, <1>5 DEF Message
<1> HIDE DEF m
<1>7. /\ source' \in SourceState /\ source'.state = "open" /\ source'.project = selected
      /\ source'.cut = cut /\ source'.next = IF cut THEN k ELSE k + 1
  <2>1. CASE cut
    BY <1>1, <1>2, <1>3, <2>1 DEF SourceState
  <2>2. CASE ~cut
    <3>1. k + 1 \in Nat \ {0}
      BY <1>3
    <3> QED BY <1>1, <1>2, <1>3, <2>2, <3>1 DEF SourceState
  <2> QED BY <2>1, <2>2
<1>8. LogShape'
  BY <1>1, <1>2, <1>6, <1>7 DEF LogInv, LogShape
<1> DEFINE s == Arriving
           t == Arriving'
<1>9. /\ s \in Seq(Message) /\ t = Append(s, m) /\ Len(s) \in Nat
      /\ Len(t) = Len(s) + 1 /\ t[Len(t)] = m /\ \A i \in 1..Len(s) : t[i] = s[i]
  <2>1. lines \in Seq(Message) /\ wire \in Seq(Message)
    BY DEF LogInv, LogShape
  <2>2. s \in Seq(Message) /\ t = Append(s, m)
    BY <1>1, <1>6, <2>1 DEF Arriving
  <2> HIDE DEF s, t
  <2> QED BY <1>6, <2>2
<1>10. InOrder(s, selected) /\ (Len(s) > 0 => Joins(s[Len(s)], source))
  BY <1>1, <1>2 DEF LogInv, StreamInOrder
<1>11. Joins(m, source')
  BY <1>3, <1>6, <1>7 DEF Joins
<1>12. ASSUME Len(s) > 0 PROVE Follows(s[Len(s)], m)
  <2>1. Joins(s[Len(s)], source)
    BY <1>10, <1>12
  <2>2. s[Len(s)] \in Message
    BY <1>9, <1>12
  <2> QED BY <1>1, <1>3, <1>6, <2>1, <2>2 DEF Joins, Follows, Message
<1> HIDE DEF s, t
<1>13. InOrder(t, selected)
  <2>1. ASSUME NEW i \in 1..Len(t) PROVE t[i].project = selected
    BY <1>6, <1>9, <1>10 DEF InOrder
  <2>2. ASSUME NEW i \in 1..(Len(t) - 1) PROVE Follows(t[i], t[i + 1])
    <3>1. CASE i = Len(s)
      BY <1>9, <1>12, <2>2, <3>1
    <3>2. CASE i # Len(s)
      <4>1. i \in 1..(Len(s) - 1) /\ i \in 1..Len(s) /\ i + 1 \in 1..Len(s)
        BY <1>9, <2>2, <3>2
      <4> QED BY <1>9, <1>10, <4>1 DEF InOrder
    <3> QED BY <3>1, <3>2
  <2> QED BY <2>1, <2>2 DEF InOrder
<1>14. StreamInOrder'
  BY <1>1, <1>7, <1>9, <1>11, <1>13 DEF StreamInOrder, t
<1> QED BY <1>8, <1>14 DEF LogInv

\* Lines at the front go, the others stay as they are.
LEMMA SuffixKeeps ==
  ASSUME LogInv, UNCHANGED <<logged, selected, mode, source>>,
         lines' \in Seq(Message), wire' \in Seq(Message), Len(lines') <= Keep + 1,
         NEW k \in Nat, Len(Arriving) = Len(Arriving') + k,
         \A i \in 1..Len(Arriving') : Arriving'[i] = Arriving[i + k],
         lines = <<>> /\ wire = <<>> => lines' = <<>> /\ wire' = <<>>
  PROVE  LogInv'
<1> DEFINE s == Arriving
           t == Arriving'
<1>1. LogShape'
  BY DEF LogInv, LogShape
<1>2. s \in Seq(Message) /\ t \in Seq(Message)
  BY DEF LogInv, LogShape, Arriving
<1> SUFFICES ASSUME mode = "live", selected # NoProject PROVE StreamInOrder'
  BY <1>1 DEF LogInv, StreamInOrder
<1>3. InOrder(t, selected) /\ (Len(t) > 0 => t[Len(t)] = s[Len(s)])
  BY <1>2, SuffixInOrder DEF LogInv, StreamInOrder
<1>4. Len(t) > 0 => Len(s) > 0
  BY <1>2
<1>5. source.state = "connecting" => lines' = <<>> /\ wire' = <<>>
  BY DEF LogInv, StreamInOrder
<1>6. source.state = "open" /\ Len(t) > 0 => Joins(t[Len(t)], source)
  BY <1>3, <1>4 DEF LogInv, StreamInOrder
<1> QED BY <1>3, <1>5, <1>6 DEF StreamInOrder

LEMMA ClearKeeps == ASSUME LogInv, Clear PROVE LogInv'
<1>1. lines' = <<>> /\ UNCHANGED <<logged, selected, mode, source, wire>>
  BY DEF Clear
<1>2. lines \in Seq(Message) /\ wire \in Seq(Message) /\ Len(lines) \in Nat
  BY DEF LogInv, LogShape
<1>3. Len(lines') <= Keep + 1
  BY <1>1, LogAssumption DEF LogAssumption
<1>4. Arriving' = wire
  BY <1>1, <1>2 DEF Arriving
<1>5. /\ Len(Arriving) = Len(wire) + Len(lines)
      /\ \A i \in 1..Len(wire) : wire[i] = Arriving[i + Len(lines)]
  BY <1>2 DEF Arriving
<1> QED BY <1>1, <1>2, <1>3, <1>4, <1>5, SuffixKeeps

\* setLines appends to a slice of the lines, onmessage takes the next message.
LEMMA MessageKeeps == ASSUME LogInv, OnMessage PROVE LogInv'
<1> DEFINE k == IF Len(lines) > Keep THEN Len(lines) - Keep ELSE 0
           rest == SubSeq(lines, k + 1, Len(lines))
<1>1. /\ lines' = Append(rest, Head(wire)) /\ wire' = Tail(wire) /\ wire # <<>>
      /\ UNCHANGED <<logged, selected, mode, source>>
  <2>1. IF Len(lines) > Keep THEN k + 1 = Len(lines) - Keep + 1 ELSE k + 1 = 1
    BY LogAssumption DEF LogAssumption, LogInv, LogShape
  <2> QED BY <2>1 DEF OnMessage
<1>2. /\ lines \in Seq(Message) /\ wire \in Seq(Message)
      /\ Len(lines) \in Nat /\ Len(lines) <= Keep + 1 /\ Keep \in Nat
  BY LogAssumption DEF LogInv, LogShape, LogAssumption
<1>3. k \in Nat /\ k <= Len(lines) /\ Len(lines) - k <= Keep
  BY <1>2
<1>4. /\ rest \in Seq(Message) /\ Len(rest) = Len(lines) - k
      /\ \A i \in 1..Len(rest) : rest[i] = lines[i + k]
  <2> HIDE DEF k
  <2>1. k + 1 \in Int /\ Len(lines) \in Int /\ \A i \in (k + 1)..Len(lines) : lines[i] \in Message
    BY <1>2, <1>3
  <2>2. /\ rest \in Seq(Message)
        /\ Len(rest) = IF k + 1 <= Len(lines) THEN Len(lines) - (k + 1) + 1 ELSE 0
        /\ \A i \in 1..(Len(lines) - (k + 1) + 1) : rest[i] = lines[(k + 1) + i - 1]
    BY <2>1, SubSeqProperties
  <2> HIDE DEF rest
  <2>3. Len(rest) = Len(lines) - k
    BY <1>2, <1>3, <2>2
  <2>4. ASSUME NEW i \in 1..Len(rest) PROVE rest[i] = lines[i + k]
    <3>1. (k + 1) + i - 1 = i + k /\ i \in 1..(Len(lines) - (k + 1) + 1)
      BY <1>2, <1>3, <2>3
    <3> QED BY <2>2, <3>1
  <2> QED BY <2>2, <2>3, <2>4
<1>5. /\ Head(wire) \in Message /\ Tail(wire) \in Seq(Message)
      /\ Len(wire) \in Nat \ {0} /\ Len(Tail(wire)) = Len(wire) - 1 /\ Head(wire) = wire[1]
      /\ \A i \in 1..Len(Tail(wire)) : Tail(wire)[i] = wire[i + 1]
  BY <1>1, <1>2
<1> HIDE DEF k, rest
<1>6. /\ lines' \in Seq(Message) /\ Len(lines') = Len(rest) + 1 /\ Len(rest) \in Nat
      /\ \A i \in 1..Len(rest) : lines'[i] = rest[i]
      /\ lines'[Len(rest) + 1] = wire[1]
  BY <1>1, <1>4, <1>5
<1>7. wire' \in Seq(Message) /\ Len(lines') <= Keep + 1
  BY <1>1, <1>2, <1>3, <1>4, <1>5, <1>6
<1>8. /\ Len(Arriving) = Len(lines) + Len(wire)
      /\ \A i \in 1..Len(lines) : Arriving[i] = lines[i]
      /\ \A i \in 1..Len(wire) : Arriving[Len(lines) + i] = wire[i]
  BY <1>2 DEF Arriving
<1>9. /\ Len(Arriving') = Len(lines') + Len(wire')
      /\ \A i \in 1..Len(lines') : Arriving'[i] = lines'[i]
      /\ \A i \in 1..Len(wire') : Arriving'[Len(lines') + i] = wire'[i]
  BY <1>6, <1>7 DEF Arriving
<1>10. Len(Arriving) = Len(Arriving') + k
  BY <1>1, <1>2, <1>3, <1>4, <1>5, <1>6, <1>8, <1>9
<1>11. ASSUME NEW i \in 1..Len(Arriving') PROVE Arriving'[i] = Arriving[i + k]
  <2>1. i \in Nat \ {0} /\ i <= Len(rest) + Len(wire)
    BY <1>1, <1>5, <1>6, <1>9
  <2>2. CASE i <= Len(rest)
    <3>1. Arriving'[i] = rest[i] /\ i \in 1..Len(rest)
      BY <1>6, <1>9, <2>1, <2>2
    <3>2. i + k \in 1..Len(lines)
      BY <1>2, <1>3, <1>4, <2>1, <2>2
    <3> QED BY <1>4, <1>8, <3>1, <3>2
  <2>3. CASE i = Len(rest) + 1
    <3>1. Arriving'[i] = wire[1]
      BY <1>6, <1>9, <2>3
    <3>2. i + k = Len(lines) + 1 /\ 1 \in 1..Len(wire)
      BY <1>2, <1>3, <1>4, <1>5, <2>3
    <3> QED BY <1>8, <3>1, <3>2
  <2>4. CASE i > Len(rest) + 1
    <3> DEFINE j == i - Len(lines')
    <3>1. j \in 1..Len(Tail(wire)) /\ i = Len(lines') + j
      BY <1>1, <1>5, <1>6, <2>1, <2>4
    <3>2. i + k = Len(lines) + (j + 1) /\ j + 1 \in 1..Len(wire)
      BY <1>2, <1>3, <1>4, <1>5, <1>6, <3>1
    <3> HIDE DEF j
    <3>3. Arriving'[i] = wire'[j] /\ wire'[j] = wire[j + 1]
      BY <1>1, <1>5, <1>9, <3>1
    <3> QED BY <1>8, <3>2, <3>3
  <2> QED BY <1>6, <2>1, <2>2, <2>3, <2>4
<1> QED BY <1>1, <1>3, <1>6, <1>7, <1>10, <1>11, SuffixKeeps

LEMMA LogInvStep == LogInv /\ [LogNext]_logVars => LogInv'
<1> SUFFICES ASSUME LogInv, [LogNext]_logVars PROVE LogInv'
  OBVIOUS
<1>1. CASE UNCHANGED logVars
  BY <1>1 DEF logVars, LogInv, LogShape, StreamInOrder, Arriving
<1>2. ASSUME NEW p \in Projects \cup {NoProject}, Select(p) PROVE LogInv'
  <2>1. selected' = p /\ UNCHANGED <<logged, mode>> /\ OpenStream(p, mode)
    BY <1>2 DEF Select
  <2>2. mode \in {"live", "build"} /\ mode' = mode
    BY <2>1 DEF LogInv, LogShape
  <2> QED BY <2>1, <2>2, OpenStreamKeeps
<1>3. ASSUME NEW m \in {"live", "build"}, SetMode(m) PROVE LogInv'
  <2>1. mode' = m /\ UNCHANGED <<logged, selected>> /\ OpenStream(selected, m)
    BY <1>3 DEF SetMode
  <2>2. selected \in Projects \cup {NoProject} /\ selected' = selected
    BY <2>1 DEF LogInv, LogShape
  <2> QED BY <2>1, <2>2, OpenStreamKeeps
<1> QED BY <1>1, <1>2, <1>3, SourceKeeps, WaitingKeeps, ChunkKeeps, ClearKeeps, MessageKeeps
        DEF LogNext

LEMMA LogInvImplies == LogInv => LogTypeOK /\ LinesOfSelected
<1> SUFFICES ASSUME LogInv PROVE LogTypeOK /\ LinesOfSelected
  OBVIOUS
<1>1. LogTypeOK
  BY DEF LogInv, LogShape, SourceState, LogTypeOK, ToSet
<1>2. LinesOfSelected
  <2> SUFFICES ASSUME mode = "live", selected # NoProject
               PROVE  /\ \A i \in 1..Len(lines) : lines[i].project = selected
                      /\ \A i \in 1..(Len(lines) - 1) : Follows(lines[i], lines[i + 1])
    BY DEF LinesOfSelected
  <2>1. InOrder(Arriving, selected)
    BY DEF LogInv, StreamInOrder
  <2>2. /\ Len(Arriving) = Len(lines) + Len(wire) /\ Len(lines) \in Nat /\ Len(wire) \in Nat
        /\ \A i \in 1..Len(lines) : Arriving[i] = lines[i]
    BY DEF LogInv, LogShape, Arriving
  <2>3. ASSUME NEW i \in 1..Len(lines) PROVE lines[i].project = selected
    BY <2>1, <2>2 DEF InOrder
  <2>4. ASSUME NEW i \in 1..(Len(lines) - 1) PROVE Follows(lines[i], lines[i + 1])
    <3>1. i \in 1..Len(lines) /\ i + 1 \in 1..Len(lines) /\ i \in 1..(Len(Arriving) - 1)
      BY <2>2
    <3> QED BY <2>1, <2>2, <3>1 DEF InOrder
  <2> QED BY <2>3, <2>4
<1> QED BY <1>1, <1>2

\* The live lines are those of the selected project, none missing and none twice
\* between the first and the last, for any number of projects and lines, every
\* limit of the page and every way the chunks are cut.
THEOREM LinesStayInOrder == LogSpec => [](LogTypeOK /\ LinesOfSelected)
  BY LogInvInit, LogInvStep, LogInvImplies, PTL DEF LogSpec

(***************************************************************************)
(* Console. A list that is cached and fresh is at least as new as every    *)
(* write its tab was told of, because a read that may be older is either   *)
(* begun again or marks the list as stale.                                 *)
(***************************************************************************)
CallState ==
  [hook : DOMAIN Hooks \cup {"none"}, at : {"free", "sent", "done"}, here : BOOLEAN, wrote : Nat]

ConsoleShape ==
  /\ tour \in Tours /\ page \in tour.pages
  /\ version \in [Keys -> Versions] /\ writes \in 0..MaxWrites /\ faults \in 0..MaxFaults
  /\ cache \in [Keys -> {NoData, Emptied} \cup Versions]
  /\ fetch \in [Keys -> {Idle, Asked} \cup Versions]
  /\ stale \subseteq Keys /\ excused \subseteq Keys
  /\ calls \in [Slots -> CallState]
  /\ \A s \in Slots :
       /\ calls[s].at = "free" => calls[s] = NoCall
       /\ calls[s].at # "free" => /\ calls[s].hook \in tour.hooks
                                  /\ calls[s].here => Hooks[calls[s].hook].page = page
       /\ calls[s].at = "done" => calls[s].wrote \in Versions
  /\ filled \subseteq {h \in tour.hooks : Hooks[h].form /\ Hooks[h].page = page}
  /\ unheard \subseteq DOMAIN Hooks
  /\ owed \in [Keys -> Versions] /\ rows \in [DOMAIN Hooks -> Nat]

\* No version is newer than the last write, no list is owed one it has not.
OwedIsWritten ==
  /\ \A k \in Keys : version[k] <= First + writes /\ owed[k] <= version[k]
  /\ \A s \in Slots : calls[s].at = "done" =>
       \A k \in Hooks[calls[s].hook].touches : calls[s].wrote <= version[k]

\* An answer under way is as new as what is owed, unless it is excused.
AnswersAreNew ==
  \A k \in Keys \ excused : fetch[k] \in Versions => fetch[k] >= owed[k]

ListsInv == OwedIsWritten /\ AnswersAreNew /\ OwnWritesShown

\* What the table of hooks says of all of them: a hook invalidates the lists its
\* handler touches, but for those it forgets; the button of a form is disabled
\* while the call is pending; a form whose rows need no unique name is emptied.
LEMMA HookTable ==
  \A h \in DOMAIN Hooks :
    /\ Hooks[h].touches \subseteq Keys
    /\ \A k \in Hooks[h].touches : k \in Hooks[h].invalidates \/ <<h, k>> \in Forgotten
    /\ Hooks[h].form \in BOOLEAN /\ Hooks[h].guarded \in BOOLEAN
    /\ Hooks[h].clears \in BOOLEAN /\ Hooks[h].unique \in BOOLEAN
    /\ Hooks[h].form => Hooks[h].guarded
    /\ Hooks[h].form /\ ~Hooks[h].unique => Hooks[h].clears
<1> DEFINE Fine(h, x) ==
      /\ x.touches \subseteq Keys
      /\ \A k \in x.touches : k \in x.invalidates \/ <<h, k>> \in Forgotten
      /\ x.form \in BOOLEAN /\ x.guarded \in BOOLEAN
      /\ x.clears \in BOOLEAN /\ x.unique \in BOOLEAN
      /\ x.form => x.guarded
      /\ x.form /\ ~x.unique => x.clears
<1>1. {"projects", "proxies", "nodes", "users", "alerts", "hardware"} \subseteq Keys
  <2>1. {"network", "users", "alerts", "dashboard"} \subseteq DOMAIN Pages
    BY DEF Pages
  <2>2. /\ Pages["network"].reads = {"projects", "proxies", "policies"}
        /\ Pages["users"].reads = {"users"} /\ Pages["alerts"].reads = {"alerts"}
        /\ Pages["dashboard"].reads = {"nodes", "projects", "hardware"}
    BY DEF Pages, Network, Users, Alerts, Dashboard
  <2> QED BY <2>1, <2>2 DEF Keys
<1>2. Fine("createProxy", CreateProxy) /\ Fine("toggleProxy", ToggleProxy)
      /\ Fine("deleteProxy", DeleteProxy)
  BY <1>1 DEF CreateProxy, ToggleProxy, DeleteProxy, Hook
<1>3. Fine("deployProject", DeployProject) /\ Fine("createCustom", CreateCustom)
  BY <1>1 DEF DeployProject, CreateCustom, Hook
<1>4. Fine("deleteProject", DeleteProject)
  BY <1>1 DEF DeleteProject, Hook, Forgotten
<1>5. Fine("deleteNode", DeleteNode) /\ Fine("rollbackProject", DeployProject)
  BY <1>1 DEF DeleteNode, DeployProject, Hook, Forgotten
<1>7. Fine("createUser", CreateUser) /\ Fine("toggleUser", ToggleUser)
  BY <1>1 DEF CreateUser, ToggleUser, Hook
<1>6. \A h \in DOMAIN Hooks : Fine(h, Hooks[h])
  <2> HIDE DEF Fine
  <2> QED BY <1>2, <1>3, <1>4, <1>5, <1>7 DEF Hooks
<1> QED BY <1>6

LEMMA MaxOfTwo ==
  ASSUME NEW a \in Nat, NEW b \in Nat
  PROVE  Max({a, b}) = IF a >= b THEN a ELSE b
<1> DEFINE m == IF a >= b THEN a ELSE b
<1>1. m \in {a, b} /\ \A y \in {a, b} : m >= y
  OBVIOUS
<1>2. \A x \in {a, b} : (\A y \in {a, b} : x >= y) => x = m
  OBVIOUS
<1> QED BY <1>1, <1>2 DEF Max

LEMMA ListsOfTour ==
  ASSUME ConsoleShape
  PROVE  /\ tour.keys \subseteq Keys /\ tour.hooks \subseteq DOMAIN Hooks
         /\ \A p : Reads(p) \subseteq Keys /\ Polls(p) \subseteq Keys
  BY ToursAssumption DEF ConsoleShape, ToursAssumption, Reads, Polls

\* The numbers that stand for a version are none of the marks.
LEMMA VersionNumbers ==
  /\ Versions \subseteq Nat /\ MaxWrites \in Nat /\ First = 2 /\ First \in Versions
  /\ \A v \in Versions : v >= 2
  /\ Versions = 2..(2 + MaxWrites)
  /\ {NoData, Emptied, Idle, Asked} = {0, 1} /\ Idle # Asked /\ NoData # Emptied
  /\ \A v \in {NoData, Emptied, Idle, Asked} : v \notin Versions
  BY ConsoleAssumption
  DEF ConsoleAssumption, Versions, First, NoData, Emptied, Idle, Asked

LEMMA ConsoleShapeInit == ConsoleInit => ConsoleShape
<1> SUFFICES ASSUME ConsoleInit PROVE ConsoleShape
  OBVIOUS
<1>1. NoCall \in CallState /\ NoCall.at = "free" /\ 0 \in 0..MaxWrites /\ 0 \in 0..MaxFaults
  BY ConsoleAssumption DEF NoCall, CallState, ConsoleAssumption
<1>2. calls \in [Slots -> CallState] /\ \A s \in Slots : calls[s] = NoCall
  BY <1>1 DEF ConsoleInit
<1>3. fetch \in [Keys -> {Idle, Asked} \cup Versions]
  BY DEF ConsoleInit, Mounted
<1>4. /\ version \in [Keys -> Versions] /\ owed \in [Keys -> Versions]
      /\ cache \in [Keys -> {NoData, Emptied} \cup Versions]
      /\ rows \in [DOMAIN Hooks -> Nat]
  BY VersionNumbers DEF ConsoleInit
<1> QED BY <1>1, <1>2, <1>3, <1>4 DEF ConsoleInit, ConsoleShape

LEMMA ListsInvInit == ConsoleInit => ListsInv
<1> SUFFICES ASSUME ConsoleInit PROVE ListsInv
  OBVIOUS
<1>1. \A s \in Slots : calls[s].at = "free"
  BY DEF ConsoleInit, NoCall
<1>2. \A k \in Keys : /\ version[k] = First /\ owed[k] = First /\ cache[k] = NoData
                      /\ fetch[k] \in {Idle, Asked}
  BY DEF ConsoleInit, Mounted
<1>3. writes = 0
  BY DEF ConsoleInit
<1>4. OwedIsWritten
  BY <1>1, <1>2, <1>3, VersionNumbers DEF OwedIsWritten
<1>5. AnswersAreNew /\ OwnWritesShown
  BY <1>2, VersionNumbers DEF AnswersAreNew, OwnWritesShown
<1> QED BY <1>4, <1>5 DEF ListsInv

\* A slot of the tab that is written anew.
LEMMA CallWritten ==
  ASSUME ConsoleShape, NEW s \in Slots, NEW c \in CallState, calls' = [calls EXCEPT ![s] = c]
  PROVE  /\ calls' \in [Slots -> CallState] /\ calls'[s] = c
         /\ \A u \in Slots \ {s} : calls'[u] = calls[u]
  BY DEF ConsoleShape

LEMMA FreeSlot == NoCall \in CallState /\ NoCall.at = "free" /\ ~NoCall.here
  BY DEF NoCall, CallState

\* Another page: no call is of the page that is shown any more.
LEMMA CallsOfOtherPage ==
  ASSUME ConsoleShape, NEW p \in tour.pages, Navigate(p)
  PROVE  /\ calls' \in [Slots -> CallState]
         /\ \A s \in Slots : /\ ~calls'[s].here /\ calls'[s].hook = calls[s].hook
                             /\ calls'[s].at = calls[s].at /\ calls'[s].wrote = calls[s].wrote
                             /\ calls'[s].at = "free" => calls'[s] = NoCall
<1>1. calls' = [s \in Slots |-> IF calls[s] = NoCall THEN NoCall
                                ELSE [calls[s] EXCEPT !.here = FALSE]]
  BY DEF Navigate
<1>2. ASSUME NEW s \in Slots
      PROVE  /\ calls'[s] \in CallState
             /\ ~calls'[s].here /\ calls'[s].hook = calls[s].hook
             /\ calls'[s].at = calls[s].at /\ calls'[s].wrote = calls[s].wrote
             /\ calls'[s].at = "free" => calls'[s] = NoCall
  <2>1. CASE calls[s] = NoCall
    BY <1>1, <2>1, FreeSlot
  <2>2. CASE calls[s] # NoCall
    <3>1. calls'[s] = [calls[s] EXCEPT !.here = FALSE] /\ calls[s] \in CallState
      BY <1>1, <2>2 DEF ConsoleShape
    <3>2. /\ calls'[s] \in CallState
          /\ ~calls'[s].here /\ calls'[s].hook = calls[s].hook
          /\ calls'[s].at = calls[s].at /\ calls'[s].wrote = calls[s].wrote
      BY <3>1 DEF CallState
    <3>3. calls[s].at # "free"
      BY <2>2 DEF ConsoleShape
    <3> QED BY <3>2, <3>3
  <2> QED BY <2>1, <2>2
<1> QED BY <1>1, <1>2

LEMMA StartedFetches ==
  ASSUME ConsoleShape, NEW ks \in SUBSET Keys, StartFetch(ks)
  PROVE  /\ fetch' \in [Keys -> {Idle, Asked} \cup Versions] /\ excused' \subseteq Keys
         /\ \A k \in ks : fetch'[k] = Asked
         /\ \A k \in Keys \ ks : fetch'[k] = fetch[k] /\ (k \in excused' <=> k \in excused)
  BY DEF StartFetch, ConsoleShape

\* The steps that leave every list as it is.
LEMMA ListsUntouched ==
  ASSUME ConsoleShape, ListsInv,
         UNCHANGED <<version, writes, cache, stale, fetch, owed, excused>>,
         \A s \in Slots : calls'[s].at = "done" =>
           /\ calls[s].at = "done" /\ calls'[s].hook = calls[s].hook
           /\ calls'[s].wrote = calls[s].wrote
  PROVE  ListsInv'
  BY DEF ListsInv, OwedIsWritten, AnswersAreNew, OwnWritesShown

\* A read that begins is not an answer yet, and the list is not at rest.
LEMMA ListsAsked ==
  ASSUME ConsoleShape, ListsInv, NEW ks \in SUBSET Keys, StartFetch(ks),
         UNCHANGED <<version, writes, cache, stale, owed>>,
         \A s \in Slots : calls'[s].at = "done" =>
           /\ calls[s].at = "done" /\ calls'[s].hook = calls[s].hook
           /\ calls'[s].wrote = calls[s].wrote
  PROVE  ListsInv'
<1>1. OwedIsWritten'
  BY DEF ListsInv, OwedIsWritten
<1>2. ASSUME NEW k \in ks
      PROVE  fetch'[k] \notin Versions /\ fetch'[k] # Idle
  BY <1>2, StartedFetches, VersionNumbers
<1>3. \A k \in Keys \ ks : fetch'[k] = fetch[k] /\ (k \in excused' <=> k \in excused)
  BY StartedFetches
<1>4. AnswersAreNew'
  BY <1>2, <1>3 DEF ListsInv, AnswersAreNew
<1>5. OwnWritesShown'
  BY <1>2, <1>3 DEF ListsInv, OwnWritesShown
<1> QED BY <1>1, <1>4, <1>5 DEF ListsInv

LEMMA ListsRead ==
  ASSUME ConsoleShape, ListsInv, NEW k \in Keys,
         Age(k) \/ Serve(k) \/ Unauthorized(k) \/ Deliver(k) \/ FetchFails(k)
  PROVE  ListsInv'
<1>1. UNCHANGED <<version, writes, calls, owed, excused>>
  BY DEF Age, Serve, Unauthorized, Deliver, FetchFails, serverVars, callVars
<1>2. OwedIsWritten'
  BY <1>1 DEF ListsInv, OwedIsWritten
<1>3. CASE Age(k)
  BY <1>1, <1>2, <1>3 DEF Age, ListsInv, AnswersAreNew, OwnWritesShown
<1>4. CASE Serve(k)
  <2>1. /\ fetch'[k] = version[k] /\ version[k] \in Versions
        /\ \A l \in Keys \ {k} : fetch'[l] = fetch[l]
        /\ UNCHANGED <<cache, stale>>
    BY <1>4 DEF Serve, ConsoleShape
  <2>2. fetch'[k] >= owed[k] /\ fetch'[k] # Idle
    BY <2>1, VersionNumbers DEF ListsInv, OwedIsWritten, ConsoleShape
  <2> QED BY <1>1, <1>2, <2>1, <2>2 DEF ListsInv, AnswersAreNew, OwnWritesShown
<1>5. CASE Deliver(k)
  <2>1. /\ fetch[k] \in Versions /\ cache'[k] = fetch[k] /\ fetch'[k] = Idle
        /\ stale' = stale \ {k}
        /\ \A l \in Keys \ {k} : fetch'[l] = fetch[l] /\ cache'[l] = cache[l]
    BY <1>5 DEF Deliver, ConsoleShape
  <2>2. Idle \notin Versions
    BY VersionNumbers
  <2>3. k \notin excused => cache'[k] >= owed[k]
    BY <2>1 DEF ListsInv, AnswersAreNew
  <2> QED BY <1>1, <1>2, <2>1, <2>2, <2>3 DEF ListsInv, AnswersAreNew, OwnWritesShown
<1>6. CASE FetchFails(k)
  <2>1. /\ fetch'[k] = Idle
        /\ \/ cache'[k] = Emptied /\ stale' = stale \ {k}
           \/ cache'[k] = cache[k] /\ stale' = stale \cup {k}
        /\ \A l \in Keys \ {k} : fetch'[l] = fetch[l] /\ cache'[l] = cache[l]
    BY <1>6 DEF FetchFails, ConsoleShape
  <2>2. Idle \notin Versions /\ Emptied \notin Versions
    BY VersionNumbers
  <2> QED BY <1>1, <1>2, <2>1, <2>2 DEF ListsInv, AnswersAreNew, OwnWritesShown
<1>7. CASE Unauthorized(k)
  <2>1. /\ fetch'[k] = Idle /\ stale' = stale \cup {k} /\ UNCHANGED cache
        /\ \A l \in Keys \ {k} : fetch'[l] = fetch[l]
    BY <1>7 DEF Unauthorized, ConsoleShape
  <2>2. Idle \notin Versions
    BY VersionNumbers
  <2> QED BY <1>1, <1>2, <2>1, <2>2 DEF ListsInv, AnswersAreNew, OwnWritesShown
<1> QED BY <1>3, <1>4, <1>5, <1>6, <1>7

\* A write makes versions grow, and a call that has written is as old as they.
LEMMA ListsWritten ==
  ASSUME ConsoleShape, ListsInv, NEW ks, Write(ks),
         UNCHANGED <<cache, stale, fetch, owed, excused>>,
         \A s \in Slots : calls'[s].at = "done" =>
           /\ calls'[s].hook = calls[s].hook /\ calls[s].at # "free"
           /\ \/ calls[s].at = "done" /\ calls'[s].wrote = calls[s].wrote
              \/ calls'[s].wrote = First + writes + 1 /\ Hooks[calls[s].hook].touches \subseteq ks
  PROVE  ListsInv'
<1>1. /\ writes' = writes + 1 /\ writes < MaxWrites /\ writes \in Nat
      /\ version' = [k \in Keys |-> IF k \in ks THEN First + writes + 1 ELSE version[k]]
  BY ConsoleAssumption DEF Write, ConsoleShape, ConsoleAssumption
<1>2. \A k \in Keys : version[k] \in Nat /\ owed[k] \in Nat
  BY VersionNumbers DEF ConsoleShape
<1>3. \A k \in Keys : /\ version[k] <= version'[k] /\ version'[k] \in Nat
                      /\ version'[k] <= First + writes'
                      /\ k \in ks => version'[k] = First + writes + 1
  BY <1>1, <1>2, VersionNumbers DEF ListsInv, OwedIsWritten
<1>4. \A k \in Keys : owed'[k] <= version'[k]
  BY <1>2, <1>3 DEF ListsInv, OwedIsWritten
<1>5. ASSUME NEW s \in Slots, calls'[s].at = "done",
             NEW k \in Hooks[calls'[s].hook].touches
      PROVE  calls'[s].wrote <= version'[k]
  <2> k \in Keys
    BY <1>5, ListsOfTour, HookTable DEF ConsoleShape
  <2>1. CASE calls[s].at = "done" /\ calls'[s].wrote = calls[s].wrote
    <3>1. calls[s].wrote <= version[k] /\ calls[s].wrote \in Nat
      BY <1>5, <2>1, VersionNumbers DEF ListsInv, OwedIsWritten, ConsoleShape
    <3> QED BY <1>2, <1>3, <1>5, <2>1, <3>1
  <2>2. CASE calls'[s].wrote = First + writes + 1 /\ Hooks[calls[s].hook].touches \subseteq ks
    <3>1. version'[k] = First + writes + 1
      BY <1>3, <1>5, <2>2
    <3> QED BY <1>3, <1>5, <2>2, <3>1
  <2> QED BY <1>5, <2>1, <2>2
<1> QED BY <1>3, <1>4, <1>5 DEF ListsInv, OwedIsWritten, AnswersAreNew, OwnWritesShown

\* What a successful hook does to a list its handler touched: the list is read
\* again, or is stale, was never read, or is excused.
LEMMA ListsReplied ==
  ASSUME ConsoleShape, ListsInv, NEW s \in Slots, Reply(s) PROVE ListsInv'
<1> DEFINE name == calls[s].hook
           h == Hooks[name]
           inv == h.invalidates \cap Known
           again == Refetched(inv)
           waits(k) == \/ <<name, k>> \in Forgotten
                       \/ fetch[k] # Idle /\ (cache[k] = NoData \/ k \notin Reads(page))
<1>1. /\ calls[s].at = "done" /\ stale' = stale \cup inv
      /\ fetch' = [k \in Keys |-> IF k \in again THEN Asked ELSE fetch[k]]
      /\ owed' = [k \in Keys |-> IF k \in h.touches THEN Max({owed[k], calls[s].wrote})
                                 ELSE owed[k]]
      /\ excused' = (excused \ again) \cup {k \in h.touches : waits(k)}
      /\ calls' = [calls EXCEPT ![s] = NoCall]
      /\ UNCHANGED <<version, writes, cache>>
  BY DEF Reply, serverVars
<1>2. /\ name \in DOMAIN Hooks /\ h.touches \subseteq Keys
      /\ \A k \in h.touches : k \in h.invalidates \/ <<name, k>> \in Forgotten
  BY <1>1, ListsOfTour, HookTable DEF ConsoleShape
<1>3. /\ \A k \in Keys : version[k] \in Nat /\ owed[k] \in Nat
      /\ calls[s].wrote \in Nat
  BY <1>1, VersionNumbers DEF ConsoleShape
<1>4. \A k \in Keys :
        /\ k \notin h.touches => owed'[k] = owed[k]
        /\ k \in h.touches => owed'[k] \in {owed[k], calls[s].wrote}
  BY <1>1, <1>3, MaxOfTwo
<1>5. OwedIsWritten'
  <2>1. ASSUME NEW k \in Keys PROVE owed'[k] <= version[k]
    BY <1>1, <1>4 DEF ListsInv, OwedIsWritten
  <2>2. \A u \in Slots : calls'[u].at = "done" => calls'[u] = calls[u]
    BY <1>1, FreeSlot, CallWritten
  <2> QED BY <1>1, <2>1, <2>2 DEF ListsInv, OwedIsWritten
<1>6. ASSUME NEW k \in Keys, k \in again
      PROVE  fetch'[k] \notin Versions /\ fetch'[k] # Idle
  BY <1>1, <1>6, VersionNumbers
<1>7. ASSUME NEW k \in Keys, k \notin again, k \notin excused'
      PROVE  /\ fetch'[k] = fetch[k] /\ k \notin excused
             /\ k \in h.touches => /\ fetch[k] = Idle
                                   /\ k \in stale' \/ cache[k] = NoData
  <2>1. fetch'[k] = fetch[k] /\ k \notin excused /\ (k \in h.touches => ~waits(k))
    BY <1>1, <1>7
  <2>2. ASSUME k \in h.touches
        PROVE  fetch[k] = Idle /\ (k \in stale' \/ cache[k] = NoData)
    <3>1. /\ k \in h.invalidates
          /\ fetch[k] = Idle \/ (cache[k] # NoData /\ k \in Reads(page))
      BY <1>2, <2>1, <2>2
    <3>2. CASE k \in Known
      <4>1. k \in inv
        BY <3>1, <3>2
      <4>2. k \notin Reads(page) \/ (fetch[k] # Idle /\ cache[k] = NoData)
        BY <1>7, <4>1 DEF Refetched
      <4> QED BY <1>1, <3>1, <4>1, <4>2
    <3>3. CASE k \notin Known
      BY <3>3 DEF Known
    <3> QED BY <3>2, <3>3
  <2> QED BY <2>1, <2>2
<1> HIDE DEF h, inv, again, waits, name
<1>8. Idle \notin Versions /\ NoData \notin Versions
  BY VersionNumbers
<1>9. ASSUME NEW k \in Keys \ excused', fetch'[k] \in Versions
      PROVE  fetch'[k] >= owed'[k]
  <2>1. k \notin again
    BY <1>6, <1>9
  <2>2. fetch'[k] = fetch[k] /\ k \notin excused /\ k \notin h.touches
    BY <1>7, <1>8, <1>9, <2>1
  <2> QED BY <1>4, <1>9, <2>2 DEF ListsInv, AnswersAreNew
<1>10. ASSUME NEW k \in Keys, cache[k] \in Versions, fetch'[k] = Idle,
              k \notin stale', k \notin excused'
       PROVE  cache[k] >= owed'[k]
  <2>1. k \notin again
    BY <1>6, <1>10
  <2>2. fetch[k] = Idle /\ k \notin excused /\ k \notin h.touches
    BY <1>7, <1>8, <1>10, <2>1
  <2>3. k \notin stale
    BY <1>1, <1>10
  <2> QED BY <1>4, <1>10, <2>2, <2>3 DEF ListsInv, OwnWritesShown
<1> QED BY <1>1, <1>5, <1>9, <1>10 DEF ListsInv, AnswersAreNew, OwnWritesShown

(***************************************************************************)
(* The forms. A form that has made a row is empty, or its answer is on its *)
(* way, or was lost; and no second call of it is.                          *)
(***************************************************************************)
FormsInv ==
  /\ \A h \in DOMAIN Hooks :
       /\ ~Hooks[h].form => rows[h] = 0
       /\ Hooks[h].unique => rows[h] <= 1
       /\ Hooks[h].form /\ Hooks[h].clears /\ rows[h] > 0 /\ h \notin unheard =>
            \/ h \notin filled
            \/ \E s \in Slots : calls[s].hook = h /\ calls[s].here /\ calls[s].at = "done"
  /\ \A s \in Slots : calls[s].here =>
       /\ calls[s].at # "free"
       /\ Hooks[calls[s].hook].form => (calls[s].at = "sent" => calls[s].hook \in filled)
       /\ Hooks[calls[s].hook].form =>
            \A u \in Slots : calls[u].here /\ calls[u].hook = calls[s].hook => u = s
  /\ OneRowPerForm

LEMMA FormsInvInit == ConsoleInit => FormsInv
<1> SUFFICES ASSUME ConsoleInit PROVE FormsInv
  OBVIOUS
<1>1. \A s \in Slots : ~calls[s].here
  BY FreeSlot DEF ConsoleInit
<1>2. \A h \in DOMAIN Hooks : rows[h] = 0
  BY DEF ConsoleInit
<1> QED BY <1>1, <1>2 DEF FormsInv, OneRowPerForm

(***************************************************************************)
(* The steps, one by one.                                                  *)
(***************************************************************************)
ConsoleParts == ConsoleShape /\ ListsInv /\ FormsInv

\* Calls and forms that nothing happens to.
LEMMA FormsUntouched ==
  ASSUME FormsInv, UNCHANGED callVars PROVE FormsInv'
  BY DEF FormsInv, OneRowPerForm, callVars

LEMMA NavigateKeeps ==
  ASSUME ConsoleParts, NEW p \in tour.pages, Navigate(p) PROVE ConsoleParts'
<1> USE DEF ConsoleParts
<1> DEFINE ks == {k \in Reads(p) : fetch[k] = Idle /\ (cache[k] = NoData \/ k \in stale)}
<1>1. /\ page' = p /\ filled' = {} /\ unheard' = {} /\ rows' = [h \in DOMAIN Hooks |-> 0]
      /\ StartFetch(ks) /\ UNCHANGED <<tour, version, writes, cache, stale, faults, owed>>
  BY DEF Navigate, serverVars
<1>2. ks \in SUBSET Keys
  BY ListsOfTour
<1> HIDE DEF ks
<1>3. /\ calls' \in [Slots -> CallState]
      /\ \A s \in Slots : /\ ~calls'[s].here /\ calls'[s].hook = calls[s].hook
                          /\ calls'[s].at = calls[s].at /\ calls'[s].wrote = calls[s].wrote
                          /\ calls'[s].at = "free" => calls'[s] = NoCall
  BY CallsOfOtherPage
<1>4. ConsoleShape'
  BY <1>1, <1>2, <1>3, StartedFetches DEF ConsoleShape
<1>5. ListsInv'
  BY <1>1, <1>2, <1>3, ListsAsked
<1>6. FormsInv'
  BY <1>1, <1>3 DEF FormsInv, OneRowPerForm
<1> QED BY <1>4, <1>5, <1>6

LEMMA PollKeeps ==
  ASSUME ConsoleParts, NEW k \in Keys, Poll(k) PROVE ConsoleParts'
<1> USE DEF ConsoleParts
<1>1. /\ StartFetch({k}) /\ {k} \in SUBSET Keys /\ UNCHANGED callVars
      /\ UNCHANGED <<tour, page, version, writes, cache, stale, faults, owed>>
  BY DEF Poll, serverVars
<1>2. ConsoleShape'
  BY <1>1, StartedFetches DEF ConsoleShape, callVars
<1>3. ListsInv'
  BY <1>1, ListsAsked DEF callVars
<1> QED BY <1>1, <1>2, <1>3, FormsUntouched

LEMMA ReadsKeep ==
  ASSUME ConsoleParts, NEW k \in Keys, Age(k) \/ Serve(k) \/ Unauthorized(k) \/ Deliver(k) \/ FetchFails(k)
  PROVE  ConsoleParts'
<1> USE DEF ConsoleParts
<1>1. UNCHANGED <<tour, page, version, writes, owed, excused>> /\ UNCHANGED callVars
  BY DEF Age, Serve, Unauthorized, Deliver, FetchFails, serverVars
<1>2. /\ cache' \in [Keys -> {NoData, Emptied} \cup Versions]
      /\ fetch' \in [Keys -> {Idle, Asked} \cup Versions]
      /\ stale' \subseteq Keys /\ faults' \in 0..MaxFaults
  <2>1. CASE Age(k)
    BY <2>1 DEF Age, ConsoleShape
  <2>2. CASE Serve(k)
    BY <2>2 DEF Serve, ConsoleShape
  <2>3. CASE Deliver(k)
    BY <2>3 DEF Deliver, ConsoleShape
  <2>4. CASE FetchFails(k)
    <3>1. faults' \in 0..MaxFaults
      BY <2>4, ConsoleAssumption DEF FetchFails, ConsoleShape, ConsoleAssumption
    <3> QED BY <2>4, <3>1 DEF FetchFails, ConsoleShape
  <2>5. CASE Unauthorized(k)
    BY <2>5 DEF Unauthorized, ConsoleShape
  <2> QED BY <2>1, <2>2, <2>3, <2>4, <2>5
<1>3. ConsoleShape'
  BY <1>1, <1>2 DEF ConsoleShape, callVars
<1> QED BY <1>1, <1>3, ListsRead, FormsUntouched

LEMMA WriteShape ==
  ASSUME ConsoleShape, NEW ks, Write(ks)
  PROVE  /\ version' \in [Keys -> Versions] /\ writes' \in 0..MaxWrites
         /\ First + writes + 1 \in Versions
<1>1. writes' = writes + 1 /\ writes < MaxWrites /\ writes \in Nat /\ MaxWrites \in Nat
  BY ConsoleAssumption DEF Write, ConsoleShape, ConsoleAssumption
<1>2. First + writes + 1 \in Versions
  BY <1>1, VersionNumbers
<1> QED BY <1>1, <1>2 DEF Write, ConsoleShape

LEMMA OtherWriteKeeps ==
  ASSUME ConsoleParts, NEW k \in Keys, OtherWrite(k) PROVE ConsoleParts'
<1> USE DEF ConsoleParts
<1>1. /\ Write({k}) /\ UNCHANGED <<tour, page, faults, owed, excused, cache, stale, fetch>>
      /\ UNCHANGED <<calls, filled, unheard>>
  BY DEF OtherWrite, cacheVars
<1>2. /\ rows' \in [DOMAIN Hooks -> Nat]
      /\ \A h \in DOMAIN Hooks : rows'[h] \in {0, rows[h]}
  BY DEF OtherWrite, ConsoleShape
<1>3. ConsoleShape'
  BY <1>1, <1>2, WriteShape DEF ConsoleShape
<1>4. ListsInv'
  BY <1>1, ListsWritten
<1>5. FormsInv'
  BY <1>1, <1>2 DEF FormsInv, OneRowPerForm
<1> QED BY <1>3, <1>4, <1>5

LEMMA FillKeeps ==
  ASSUME ConsoleParts, NEW h \in tour.hooks, Fill(h) PROVE ConsoleParts'
<1> USE DEF ConsoleParts
<1>1. /\ Hooks[h].page = page /\ Hooks[h].form /\ h \in DOMAIN Hooks
      /\ filled' = filled \cup {h} /\ rows' = [rows EXCEPT ![h] = 0]
      /\ unheard' = unheard \ {h}
      /\ UNCHANGED <<tour, page, version, writes, cache, stale, fetch, calls, faults, owed, excused>>
  BY ListsOfTour DEF Fill, serverVars, cacheVars
<1>2. /\ rows' \in [DOMAIN Hooks -> Nat] /\ rows'[h] = 0
      /\ \A g \in DOMAIN Hooks \ {h} : rows'[g] = rows[g]
  BY <1>1 DEF ConsoleShape
<1>3. ConsoleShape'
  BY <1>1, <1>2 DEF ConsoleShape
<1>4. ListsInv'
  BY <1>1, ListsUntouched
<1>5. FormsInv'
  BY <1>1, <1>2 DEF FormsInv, OneRowPerForm
<1> QED BY <1>3, <1>4, <1>5

LEMMA ClickKeeps ==
  ASSUME ConsoleParts, NEW h \in tour.hooks, NEW s \in Slots, Click(h, s)
  PROVE  ConsoleParts'
<1> USE DEF ConsoleParts
<1> DEFINE c == [hook |-> h, at |-> "sent", here |-> TRUE, wrote |-> 0]
<1>1. /\ Hooks[h].page = page /\ h \in DOMAIN Hooks /\ calls[s] = NoCall
      /\ Hooks[h].guarded => ~Pending(h)
      /\ Hooks[h].form => h \in filled
      /\ calls' = [calls EXCEPT ![s] = c]
      /\ UNCHANGED <<tour, page, version, writes, cache, stale, fetch, filled, rows, unheard,
                     faults, owed, excused>>
  BY ListsOfTour DEF Click, serverVars, cacheVars
<1>2. c \in CallState /\ c.hook = h /\ c.at = "sent" /\ c.here
  BY <1>1 DEF CallState
<1> HIDE DEF c
<1>3. /\ calls' \in [Slots -> CallState] /\ calls'[s] = c
      /\ \A u \in Slots \ {s} : calls'[u] = calls[u]
  BY <1>1, <1>2, CallWritten
<1>4. ConsoleShape'
  BY <1>1, <1>2, <1>3 DEF ConsoleShape
<1>5. ListsInv'
  BY <1>1, <1>2, <1>3, ListsUntouched
<1>6. Hooks[h].form => \A u \in Slots : ~(calls[u].hook = h /\ calls[u].here)
  BY <1>1, HookTable DEF Pending
<1>7. calls[s].at = "free" /\ ~calls[s].here
  BY <1>1, FreeSlot
<1>8. FormsInv'
  <2>1. ASSUME NEW g \in DOMAIN Hooks
        PROVE  /\ ~Hooks[g].form => rows[g] = 0
               /\ Hooks[g].unique => rows[g] <= 1
               /\ Hooks[g].form /\ Hooks[g].clears /\ rows[g] > 0 /\ g \notin unheard =>
                    \/ g \notin filled
                    \/ \E u \in Slots : calls'[u].hook = g /\ calls'[u].here /\ calls'[u].at = "done"
    <3>1. \A u \in Slots : calls[u].at = "done" => calls'[u] = calls[u]
      BY <1>3, <1>7
    <3> QED BY <3>1 DEF FormsInv
  <2>2. ASSUME NEW u \in Slots, calls'[u].here
        PROVE  /\ calls'[u].at # "free"
               /\ Hooks[calls'[u].hook].form => (calls'[u].at = "sent" => calls'[u].hook \in filled)
               /\ Hooks[calls'[u].hook].form =>
                    \A v \in Slots : calls'[v].here /\ calls'[v].hook = calls'[u].hook => v = u
    <3>1. CASE u = s
      BY <1>1, <1>2, <1>3, <1>6, <3>1
    <3>2. CASE u # s
      BY <1>2, <1>3, <1>6, <2>2, <3>2 DEF FormsInv
    <3> QED BY <3>1, <3>2
  <2> QED BY <1>1, <2>1, <2>2 DEF FormsInv, OneRowPerForm
<1> QED BY <1>4, <1>5, <1>8

LEMMA CommitKeeps ==
  ASSUME ConsoleParts, NEW s \in Slots, Commit(s) PROVE ConsoleParts'
<1> USE DEF ConsoleParts
<1> DEFINE h == calls[s].hook
           c == [calls[s] EXCEPT !.at = "done", !.wrote = First + writes + 1]
<1>1. /\ calls[s].at = "sent" /\ ~(Hooks[h].unique /\ calls[s].here /\ rows[h] > 0)
      /\ Write(Hooks[h].touches) /\ calls' = [calls EXCEPT ![s] = c]
      /\ rows' = IF calls[s].here /\ Hooks[h].form THEN [rows EXCEPT ![h] = @ + 1] ELSE rows
      /\ UNCHANGED <<tour, page, cache, stale, fetch, filled, unheard, faults, owed, excused>>
  BY DEF Commit, Refused, cacheVars
<1>2. /\ h \in tour.hooks /\ h \in DOMAIN Hooks /\ calls[s] \in CallState
      /\ calls[s].here => Hooks[h].page = page
  BY <1>1, ListsOfTour DEF ConsoleShape
<1>3. First + writes + 1 \in Versions /\ First + writes + 1 \in Nat
  BY <1>1, WriteShape, VersionNumbers
<1>4. /\ c \in CallState /\ c.hook = h /\ c.at = "done" /\ c.here = calls[s].here
      /\ c.wrote = First + writes + 1
  BY <1>2, <1>3 DEF CallState
<1> HIDE DEF c
<1>5. /\ calls' \in [Slots -> CallState] /\ calls'[s] = c
      /\ \A u \in Slots \ {s} : calls'[u] = calls[u]
  BY <1>1, <1>4, CallWritten
<1>6. /\ rows' \in [DOMAIN Hooks -> Nat]
      /\ \A g \in DOMAIN Hooks : rows'[g] # rows[g] =>
           g = h /\ calls[s].here /\ Hooks[h].form /\ rows'[h] = rows[h] + 1
      /\ \A g \in DOMAIN Hooks : rows[g] \in Nat
  BY <1>1, <1>2 DEF ConsoleShape
<1>7. ConsoleShape'
  <2>1. version' \in [Keys -> Versions] /\ writes' \in 0..MaxWrites
    BY <1>1, WriteShape
  <2>2. ASSUME NEW u \in Slots
        PROVE  /\ calls'[u].at = "free" => calls'[u] = NoCall
               /\ calls'[u].at # "free" => /\ calls'[u].hook \in tour.hooks
                                           /\ calls'[u].here => Hooks[calls'[u].hook].page = page
               /\ calls'[u].at = "done" => calls'[u].wrote \in Versions
    <3>1. CASE u = s
      BY <1>2, <1>3, <1>4, <1>5, <3>1
    <3>2. CASE u # s
      BY <1>5, <3>2 DEF ConsoleShape
    <3> QED BY <3>1, <3>2
  <2> QED BY <1>1, <1>5, <1>6, <2>1, <2>2 DEF ConsoleShape
<1>8. ListsInv'
  <2>1. ASSUME NEW u \in Slots, calls'[u].at = "done"
        PROVE  /\ calls'[u].hook = calls[u].hook /\ calls[u].at # "free"
               /\ \/ calls[u].at = "done" /\ calls'[u].wrote = calls[u].wrote
                  \/ /\ calls'[u].wrote = First + writes + 1
                     /\ Hooks[calls[u].hook].touches \subseteq Hooks[h].touches
    BY <1>1, <1>4, <1>5, <2>1
  <2> HIDE DEF h
  <2> QED BY <1>1, <2>1, ListsWritten
<1>9. \A u \in Slots : calls'[u].hook = calls[u].hook /\ calls'[u].here = calls[u].here
  BY <1>4, <1>5
<1>10. ASSUME NEW g \in DOMAIN Hooks
       PROVE  /\ ~Hooks[g].form => rows'[g] = 0
              /\ Hooks[g].unique => rows'[g] <= 1
              /\ Hooks[g].form /\ Hooks[g].clears /\ rows'[g] > 0 /\ g \notin unheard =>
                   \/ g \notin filled
                   \/ \E u \in Slots : calls'[u].hook = g /\ calls'[u].here /\ calls'[u].at = "done"
              /\ rows'[g] > 1 => g \in unheard /\ ~Hooks[g].unique
  <2>1. CASE rows'[g] = rows[g]
    <3>1. \A u \in Slots : calls[u].at = "done" => calls'[u] = calls[u]
      BY <1>1, <1>5
    <3> QED BY <2>1, <3>1 DEF FormsInv, OneRowPerForm
  <2>2. CASE rows'[g] # rows[g]
    <3>1. g = h /\ calls[s].here /\ Hooks[h].form /\ rows'[h] = rows[h] + 1 /\ rows[h] \in Nat
      BY <1>2, <1>6, <2>2
    <3>2. Hooks[h].unique => rows[h] = 0
      BY <1>1, <3>1
    <3>3. calls'[s].hook = h /\ calls'[s].here /\ calls'[s].at = "done"
      BY <1>4, <1>5, <3>1
    <3>4. ASSUME rows[h] > 0, h \notin unheard PROVE FALSE
      <4>1. Hooks[h].clears
        BY <1>2, <3>1, <3>2, <3>4, HookTable
      <4>2. h \in filled
        BY <1>1, <3>1 DEF FormsInv
      <4>3. PICK u \in Slots : calls[u].hook = h /\ calls[u].here /\ calls[u].at = "done"
        BY <1>2, <3>1, <3>4, <4>1, <4>2 DEF FormsInv
      <4>4. u = s
        BY <3>1, <4>3 DEF FormsInv
      <4> QED BY <1>1, <4>3, <4>4
    <3> QED BY <3>1, <3>2, <3>3, <3>4
  <2> QED BY <2>1, <2>2
<1>11. ASSUME NEW u \in Slots, calls'[u].here
       PROVE  /\ calls'[u].at # "free"
              /\ Hooks[calls'[u].hook].form => (calls'[u].at = "sent" => calls'[u].hook \in filled)
              /\ Hooks[calls'[u].hook].form =>
                   \A v \in Slots : calls'[v].here /\ calls'[v].hook = calls'[u].hook => v = u
  <2>1. calls[u].here
    BY <1>9, <1>11
  <2>2. Hooks[calls[u].hook].form =>
          \A v \in Slots : calls[v].here /\ calls[v].hook = calls[u].hook => v = u
    BY <2>1 DEF FormsInv
  <2>3. CASE u = s
    BY <1>4, <1>5, <1>9, <2>2, <2>3
  <2>4. CASE u # s
    <3>1. calls'[u] = calls[u]
      BY <1>5, <2>4
    <3> QED BY <1>9, <2>1, <2>2, <3>1 DEF FormsInv
  <2> QED BY <2>3, <2>4
<1> HIDE DEF h
<1>13. UNCHANGED <<filled, unheard>>
  BY <1>1
<1>14. OneRowPerForm'
  BY <1>10, <1>13 DEF OneRowPerForm
<1>15. ASSUME NEW g \in DOMAIN Hooks
       PROVE  /\ ~Hooks[g].form => rows'[g] = 0
              /\ Hooks[g].unique => rows'[g] <= 1
              /\ Hooks[g].form /\ Hooks[g].clears /\ rows'[g] > 0 /\ g \notin unheard' =>
                   \/ g \notin filled'
                   \/ \E u \in Slots : calls'[u].hook = g /\ calls'[u].here /\ calls'[u].at = "done"
  BY <1>10, <1>13
<1>16. ASSUME NEW u \in Slots, calls'[u].here
       PROVE  /\ calls'[u].at # "free"
              /\ Hooks[calls'[u].hook].form => (calls'[u].at = "sent" => calls'[u].hook \in filled')
              /\ Hooks[calls'[u].hook].form =>
                   \A v \in Slots : calls'[v].here /\ calls'[v].hook = calls'[u].hook => v = u
  BY <1>11, <1>13, <1>16
<1>12. FormsInv'
  BY <1>14, <1>15, <1>16 DEF FormsInv
<1> QED BY <1>7, <1>8, <1>12

\* A call that is over leaves its slot to others. Its form is empty if it was of
\* this page and succeeded, and otherwise the answer is lost.
LEMMA SlotFreed ==
  ASSUME ConsoleShape, FormsInv, NEW s \in Slots, calls' = [calls EXCEPT ![s] = NoCall],
         UNCHANGED rows, filled' \subseteq filled, unheard \subseteq unheard',
         \A g \in filled \ filled' : g = calls[s].hook /\ calls[s].here /\ Hooks[g].form,
         calls[s].here /\ calls[s].at = "done" =>
           calls[s].hook \in unheard' \/ (Hooks[calls[s].hook].clears => calls[s].hook \notin filled')
  PROVE  FormsInv'
<1>1. /\ calls'[s] = NoCall /\ \A u \in Slots \ {s} : calls'[u] = calls[u]
  BY FreeSlot, CallWritten
<1>2. ASSUME NEW g \in DOMAIN Hooks, Hooks[g].form, Hooks[g].clears, rows[g] > 0,
             g \notin unheard', g \in filled'
      PROVE  \E u \in Slots : calls'[u].hook = g /\ calls'[u].here /\ calls'[u].at = "done"
  <2>1. PICK u \in Slots : calls[u].hook = g /\ calls[u].here /\ calls[u].at = "done"
    BY <1>2 DEF FormsInv
  <2>2. u # s
    BY <1>2, <2>1
  <2> QED BY <1>1, <2>1, <2>2
<1>3. ASSUME NEW u \in Slots, calls'[u].here
      PROVE  /\ calls'[u].at # "free"
             /\ Hooks[calls'[u].hook].form => (calls'[u].at = "sent" => calls'[u].hook \in filled')
             /\ Hooks[calls'[u].hook].form =>
                  \A v \in Slots : calls'[v].here /\ calls'[v].hook = calls'[u].hook => v = u
  <2>1. u # s /\ calls'[u] = calls[u]
    BY <1>1, <1>3, FreeSlot
  <2>2. ASSUME Hooks[calls[u].hook].form, calls[u].at = "sent"
        PROVE  calls[u].hook \in filled'
    <3>1. calls[u].hook \in filled
      BY <1>3, <2>1, <2>2 DEF FormsInv
    <3>2. ASSUME calls[u].hook \notin filled' PROVE FALSE
      <4>1. calls[u].hook = calls[s].hook /\ calls[s].here
        BY <3>1, <3>2
      <4> QED BY <1>3, <2>1, <2>2, <4>1 DEF FormsInv
    <3> QED BY <3>2
  <2>3. ASSUME Hooks[calls[u].hook].form, NEW v \in Slots, calls'[v].here,
               calls'[v].hook = calls[u].hook
        PROVE  v = u
    <3>1. v # s /\ calls'[v] = calls[v]
      BY <1>1, <2>3, FreeSlot
    <3> QED BY <1>3, <2>1, <2>3, <3>1 DEF FormsInv
  <2> QED BY <1>3, <2>1, <2>2, <2>3 DEF FormsInv
<1>4. \A h \in DOMAIN Hooks : rows[h] > 1 => h \in unheard' /\ ~Hooks[h].unique
  BY DEF FormsInv, OneRowPerForm
<1>5. \A h \in DOMAIN Hooks : /\ ~Hooks[h].form => rows[h] = 0
                              /\ Hooks[h].unique => rows[h] <= 1
  BY DEF FormsInv
<1> QED BY <1>2, <1>3, <1>4, <1>5 DEF FormsInv, OneRowPerForm

LEMMA EndOfCallKeeps ==
  ASSUME ConsoleParts, NEW s \in Slots, Refuse(s) \/ LoseReply(s) \/ Reply(s)
  PROVE  ConsoleParts'
<1> USE DEF ConsoleParts
<1>1. /\ calls[s].at \in {"sent", "done"} /\ calls' = [calls EXCEPT ![s] = NoCall]
      /\ UNCHANGED <<tour, page, version, writes, cache, rows>>
  BY DEF Refuse, LoseReply, Reply, serverVars, cacheVars
<1>2. calls[s].hook \in tour.hooks /\ calls[s].hook \in DOMAIN Hooks
  BY <1>1, ListsOfTour DEF ConsoleShape
<1>3. /\ calls' \in [Slots -> CallState] /\ calls'[s] = NoCall
      /\ \A u \in Slots \ {s} : calls'[u] = calls[u]
  BY <1>1, FreeSlot, CallWritten
<1>4. ASSUME NEW u \in Slots
      PROVE  /\ calls'[u].at = "free" => calls'[u] = NoCall
             /\ calls'[u].at # "free" => /\ calls'[u].hook \in tour.hooks
                                         /\ calls'[u].here => Hooks[calls'[u].hook].page = page
             /\ calls'[u].at = "done" => /\ calls'[u].wrote \in Versions /\ calls[u].at = "done"
                                         /\ calls'[u] = calls[u]
  <2>1. CASE u = s
    BY <1>3, <2>1, FreeSlot
  <2>2. CASE u # s
    BY <1>3, <2>2 DEF ConsoleShape
  <2> QED BY <2>1, <2>2
<1>5. CASE Refuse(s) \/ LoseReply(s)
  <2>1. /\ UNCHANGED <<stale, fetch, filled, owed, excused>>
        /\ faults' = faults \/ (faults < MaxFaults /\ faults' = faults + 1)
        /\ \/ calls[s].at = "sent" /\ unheard' = unheard
           \/ unheard' = IF calls[s].here THEN unheard \cup {calls[s].hook} ELSE unheard
    BY <1>5 DEF Refuse, LoseReply, cacheVars
  <2>2. faults' \in 0..MaxFaults
    BY <2>1, ConsoleAssumption DEF ConsoleShape, ConsoleAssumption
  <2>3. unheard' \subseteq DOMAIN Hooks
    BY <1>2, <2>1 DEF ConsoleShape
  <2>4. ConsoleShape'
    BY <1>1, <1>3, <1>4, <2>1, <2>2, <2>3 DEF ConsoleShape
  <2>5. ListsInv'
    BY <1>1, <1>4, <2>1, ListsUntouched
  <2>6. FormsInv'
    BY <1>1, <2>1, SlotFreed
  <2> QED BY <2>4, <2>5, <2>6
<1>6. CASE Reply(s)
  <2> DEFINE h == Hooks[calls[s].hook]
  <2>1. /\ calls[s].at = "done" /\ UNCHANGED <<unheard, faults>>
        /\ filled' = IF h.clears /\ calls[s].here THEN filled \ {calls[s].hook} ELSE filled
    BY <1>6 DEF Reply
  <2>2. /\ stale' \subseteq Keys
        /\ fetch' \in [Keys -> {Idle, Asked} \cup Versions]
        /\ excused' \subseteq Keys
    <3>1. h.touches \subseteq Keys
      BY <1>2, HookTable
    <3> QED BY <1>6, <3>1 DEF Reply, ConsoleShape, Known
  <2>3. owed' \in [Keys -> Versions]
    <3>1. calls[s].wrote \in Versions /\ calls[s].wrote \in Nat
      BY <2>1, VersionNumbers DEF ConsoleShape
    <3>2. ASSUME NEW k \in Keys
          PROVE  (IF k \in h.touches THEN Max({owed[k], calls[s].wrote}) ELSE owed[k]) \in Versions
      <4>1. owed[k] \in Versions /\ owed[k] \in Nat
        BY VersionNumbers DEF ConsoleShape
      <4> QED BY <3>1, <4>1, MaxOfTwo
    <3>3. owed' = [k \in Keys |-> IF k \in h.touches THEN Max({owed[k], calls[s].wrote})
                                  ELSE owed[k]]
      BY <1>6 DEF Reply
    <3> HIDE DEF h
    <3> QED BY <3>2, <3>3
  <2>4. ConsoleShape'
    <3>1. filled' \subseteq filled
      BY <2>1
    <3> QED BY <1>1, <1>3, <1>4, <2>1, <2>2, <2>3, <3>1 DEF ConsoleShape
  <2>5. ListsInv'
    BY <1>6, ListsReplied
  <2>6. FormsInv'
    <3>1. /\ filled' \subseteq filled /\ unheard \subseteq unheard'
          /\ h.clears => calls[s].hook \notin filled' \/ ~calls[s].here
      BY <2>1
    <3>2. ASSUME NEW g \in filled \ filled'
          PROVE  g = calls[s].hook /\ calls[s].here /\ Hooks[g].form
      BY <2>1 DEF ConsoleShape
    <3> QED BY <1>1, <3>1, <3>2, SlotFreed
  <2> QED BY <2>4, <2>5, <2>6
<1> QED BY <1>5, <1>6

LEMMA ConsoleInvStep == ConsoleParts /\ [ConsoleNext]_consoleVars => ConsoleParts'
<1> SUFFICES ASSUME ConsoleParts, [ConsoleNext]_consoleVars PROVE ConsoleParts'
  OBVIOUS
<1>1. CASE UNCHANGED consoleVars
  BY <1>1 DEF consoleVars, ConsoleParts, ConsoleShape, ListsInv, OwedIsWritten, AnswersAreNew,
              OwnWritesShown, FormsInv, OneRowPerForm
<1>2. tour.keys \subseteq Keys
  BY ListsOfTour DEF ConsoleParts
<1>3. ASSUME NEW k \in tour.keys,
             Poll(k) \/ Age(k) \/ FetchStep(k) \/ FetchFails(k) \/ OtherWrite(k)
      PROVE  ConsoleParts'
  BY <1>2, <1>3, PollKeeps, ReadsKeep, OtherWriteKeeps DEF FetchStep
<1> QED BY <1>1, <1>3, NavigateKeeps, FillKeeps, ClickKeeps, CommitKeeps, EndOfCallKeeps
        DEF ConsoleNext

LEMMA ConsoleInvInit == ConsoleInit => ConsoleParts
  BY ConsoleShapeInit, ListsInvInit, FormsInvInit DEF ConsoleParts

LEMMA ConsoleInvImplies ==
  ConsoleParts => ConsoleTypeOK /\ OwnWritesShown /\ OneRowPerForm
<1> SUFFICES ASSUME ConsoleParts PROVE ConsoleTypeOK
  BY DEF ConsoleParts, ListsInv, FormsInv
<1>1. \A s \in Slots : calls[s] # NoCall => calls[s].at \in {"sent", "done"}
  BY DEF ConsoleParts, ConsoleShape, CallState
<1> QED BY <1>1 DEF ConsoleParts, ConsoleShape, ConsoleTypeOK

\* What a user was told to have done is on the screen once the list is at rest,
\* for any number of calls in flight, writes by others, reads that fail and
\* every way from page to page, with the exceptions the property names.
THEOREM OwnWritesAreSeen == ConsoleSpec => [](ConsoleTypeOK /\ OwnWritesShown)
  BY ConsoleInvInit, ConsoleInvStep, ConsoleInvImplies, PTL DEF ConsoleSpec

\* One filling of a form makes one row, for any number of clicks and of calls in
\* flight, unless an answer was lost and the name need not be unique, or others have
\* deleted the row: buttons of
\* forms are disabled while their call is pending.
THEOREM FormsMakeOneRow == ConsoleSpec => []OneRowPerForm
  BY ConsoleInvInit, ConsoleInvStep, ConsoleInvImplies, PTL DEF ConsoleSpec


-----------------------------------------------------------------------------
(* The parts together.                                                     *)

\* A behaviour of the composition is one of each part.
LEMMA PartsBehave == FairSpec => ConsoleSpec /\ SettingsSpec /\ LogSpec
<1>1. Init => ConsoleInit /\ SettingsInit /\ LogInit
  BY DEF Init
<1>2. [Next]_vars => [ConsoleNext]_consoleVars
  BY DEF Next, vars, ListStep
<1>3. [Next]_vars => [SettingsNext]_settingsVars
  BY DEF Next, vars, ListStep
<1>4. [Next]_vars => [LogNext]_logVars
  BY DEF Next, vars, ListStep
<1> QED BY <1>1, <1>2, <1>3, <1>4, PTL DEF FairSpec, ConsoleSpec, SettingsSpec, LogSpec

\* Whatever tab, form or stream a behaviour is about, the cache, the calls, the
\* tables, the form and the lines stay well-typed.
THEOREM ConsoleTypeCorrect == FairSpec => []TypeOK
<1>1. ConsoleTypeOK /\ SettingsTypeOK /\ LogTypeOK => TypeOK
  BY DEF TypeOK
<1> QED BY <1>1, PartsBehave, OwnWritesAreSeen, UntypedStaysAsItIs,
           LinesStayInOrder, PTL
=============================================================================
