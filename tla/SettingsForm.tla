---------------------------- MODULE SettingsForm ----------------------------
(***************************************************************************)
(* The Settings page of several browser tabs against PATCH                 *)
(* /system/settings, which writes the fields of a request one by one. The  *)
(* page fills its form when it is mounted, from the copy in the query      *)
(* cache or, without one, from the defaults in the code; it never fills it *)
(* again, sends every field whoever typed it, and invalidates nothing.     *)
(***************************************************************************)
EXTENDS Naturals, Sequences

CONSTANTS
  Tabs,
  Values,    \* of a field
  Default,   \* what the form shows without a copy; the table is seeded with it too
  Requests,  \* numbers: requests that may be in flight together
  MaxSaves   \* bound: requests

ASSUME SettingsAssumption ==
  Default \in Values /\ Requests \subseteq Nat /\ MaxSaves \in Nat /\ "none" \notin Tabs

\* Mutant: domain is missing from the allowed keys.
BugFields == <<"access_mode">>

\* The fields every request carries, in the order of its body. The tokens are
\* sent only when typed and never shown.
Fields == <<"access_mode", "domain">>
Field == {"access_mode", "domain"}

VARIABLES
  setting,   \* system_settings: of each field its value and the write it is from
  copy,      \* of each tab: what its cache holds, if it holds anything
  form,      \* of each tab: the copy the form was opened with, the values and
             \* the fields typed since
  save,      \* requests in flight: the form they carry and the fields written
  saves,     \* requests so far
  applied,   \* history: the values of the last request that was written
  disturbed  \* history: another request overlapped with that one, or one broke off

Row == [value : Values, write : Nat]
NoCopy == <<>>
Closed == [from |-> NoCopy, value |-> [f \in Field |-> Default], typed |-> {}, open |-> FALSE]
NoSave == [tab |-> "none", here |-> FALSE, body |-> Closed, done |-> 0]

SettingsTypeOK ==
  /\ setting \in [Field -> Row] /\ saves \in 0..MaxSaves
  /\ \A t \in Tabs :
       /\ copy[t] # NoCopy => copy[t] \in [Field -> Row]
       /\ form[t].value \in [Field -> Values] /\ form[t].typed \subseteq Field
  /\ \A r \in Requests : save[r] # NoSave =>
       /\ save[r].tab \in Tabs /\ save[r].done \in 0..Len(Fields) /\ save[r].body.open
       /\ save[r].here => form[save[r].tab].open

SettingsInit ==
  /\ setting = [f \in Field |-> [value |-> Default, write |-> 0]]
  /\ copy = [t \in Tabs |-> NoCopy]
  /\ form = [t \in Tabs |-> Closed] /\ save = [r \in Requests |-> NoSave]
  /\ saves = 0 /\ disturbed = FALSE
  /\ applied = [f \in Field |-> Default]

\* Mutant: the domain is not taken from the copy.
BugFilled(t) ==
  [f \in Field |-> IF copy[t] = NoCopy \/ f = "domain" THEN Default ELSE copy[t][f].value]

\* useState(settings?.access_mode ?? 'tunnel'), useState(settings?.domain ?? '').
Filled(t) == [f \in Field |-> IF copy[t] = NoCopy THEN Default ELSE copy[t][f].value]

Active == {r \in Requests : save[r] # NoSave}

\* The page is mounted, for the first time or again: the form is filled anew,
\* and a request under way goes on without its page.
Open(t) ==
  /\ form' = [form EXCEPT ![t] =
       [from |-> IF copy[t] = NoCopy THEN NoCopy ELSE [f \in Field |-> copy[t][f].write],
        value |-> Filled(t), typed |-> {}, open |-> TRUE]]
  /\ save' = [r \in Requests |-> IF save[r].tab = t THEN [save[r] EXCEPT !.here = FALSE]
                                 ELSE save[r]]
  /\ UNCHANGED <<setting, copy, saves, applied, disturbed>>

\* useQuery of the open page, when there is no copy or it is stale: what was
\* read at the table is in the cache some time later, and not in the form.
ReadSettings(t) ==
  /\ form[t].open
  /\ copy' = [copy EXCEPT ![t] = setting]
  /\ UNCHANGED <<setting, form, save, saves, applied, disturbed>>

\* Once per field and opening: it is the last value typed that counts.
Type(t, f, v) ==
  /\ form[t].open /\ f \notin form[t].typed /\ v # form[t].value[f]
  /\ form' = [form EXCEPT ![t].value[f] = v, ![t].typed = @ \cup {f}]
  /\ UNCHANGED <<setting, copy, save, saves, applied, disturbed>>

\* The button is disabled while a request of the page is pending.
Save(t, r) ==
  /\ form[t].open /\ saves < MaxSaves
  /\ save[r] = NoSave /\ \A q \in Requests : q < r => save[q] # NoSave
  /\ \A q \in Active : save[q].here => save[q].tab # t
  /\ save' = [save EXCEPT ![r] = [tab |-> t, here |-> TRUE, body |-> form[t], done |-> 0]]
  /\ saves' = saves + 1
  /\ disturbed' = (Active # {})
  /\ UNCHANGED <<setting, copy, form, applied>>

\* One INSERT ... ON CONFLICT DO UPDATE of updateSettings.
WriteField(r) ==
  /\ save[r] # NoSave /\ save[r].done < Len(Fields)
  /\ LET f == Fields[save[r].done + 1] IN
       setting' = [setting EXCEPT ![f] =
         [value |-> save[r].body.value[f], write |-> @.write + 1]]
  /\ save' = [save EXCEPT ![r].done = @ + 1]
  /\ UNCHANGED <<copy, form, saves, applied, disturbed>>

Saved(r) ==
  /\ save[r] # NoSave /\ save[r].done = Len(Fields)
  /\ applied' = save[r].body.value
  /\ save' = [save EXCEPT ![r] = NoSave]
  /\ UNCHANGED <<setting, copy, form, saves, disturbed>>

\* A query is rejected: the fields before it are written.
SaveFails(r) ==
  /\ save[r] # NoSave
  /\ save' = [save EXCEPT ![r] = NoSave]
  /\ disturbed' = TRUE
  /\ UNCHANGED <<setting, copy, form, saves, applied>>

SettingsNext ==
  \/ \E t \in Tabs :
       \/ Open(t) \/ ReadSettings(t)
       \/ \E f \in Field, v \in Values : Type(t, f, v)
       \/ \E r \in Requests : Save(t, r)
  \/ \E r \in Requests : WriteField(r) \/ Saved(r) \/ SaveFails(r)

settingsVars == <<setting, copy, form, save, saves, applied, disturbed>>

SettingsSpec == SettingsInit /\ [][SettingsNext]_settingsVars

-----------------------------------------------------------------------------
(* Properties.                                                             *)

\* A field nobody typed is written as it is in the table, unless the form was
\* opened without a copy or the field was written since the copy was read: by
\* another tab, or by this one, which keeps its copy after a save.
UntypedIsKept ==
  \A r \in Active :
    LET b == save[r].body IN
    \A i \in (save[r].done + 1)..Len(Fields) :
      LET f == Fields[i] IN
      f \notin b.typed /\ b.from # NoCopy /\ b.from[f] = setting[f].write
        => b.value[f] = setting[f].value

\* Access mode and domain belong together: between requests they are those of
\* one request, unless that one overlapped with another or broke off.
SettingsOfOneSave ==
  Active = {} /\ ~ disturbed => \A f \in Field : setting[f].value = applied[f]

=============================================================================
