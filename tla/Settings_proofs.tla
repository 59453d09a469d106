--------------------------- MODULE Settings_proofs ---------------------------
(***************************************************************************)
(* The settings stay valid, the provider stays in step with them, and      *)
(* unloading a role restores the settings from before the first role, for  *)
(* every schema, every set of roles and every set of provider settings     *)
(* that can be built.  The three invariants are inductive together:        *)
(*                                                                         *)
(*   - a rollback and an undone role go through ConfigManager.set, which   *)
(*     refuses an invalid value; so they restore only if what they put     *)
(*     back is valid (SettingsValid), which StartupValid provides;         *)
(*   - what a role saves over another is Undone, which SavedInv shows to   *)
(*     agree with the settings from before the first role.                 *)
(***************************************************************************)
EXTENDS Settings, TLAPS

SettingsInv == TypeOK /\ SettingsValid /\ ProviderFollowsSettings /\ SavedInv

USE DEF None

-----------------------------------------------------------------------------
(***************************************************************************)
(* Applying changes.                                                       *)
(***************************************************************************)

\* Changes applied to settings give settings, whose values are those of
\* before or admitted by their key; valid settings stay valid.
LEMMA ApplyFacts ==
    ASSUME NEW vals \in [Keys -> Values], NEW changes \in Changes
    PROVE  /\ Apply(vals, changes) \in [Keys -> Values]
           /\ \A k \in Keys : vals[k] \in Valid[k] =>
                  Apply(vals, changes)[k] \in Valid[k]
           /\ \A k \in Keys : changes[k] = None =>
                  Apply(vals, changes)[k] = vals[k]
           /\ \A k \in Keys : changes[k] \in Valid[k] =>
                  Apply(vals, changes)[k] = changes[k]
BY SettingsAssumption DEF Apply, Changes

\* The mirror of the prompt file keeps its type.
LEMMA MirrorType ==
    ASSUME NEW prompt \in Values, NEW changes \in Changes
    PROVE  Mirror(prompt, changes) \in Values
BY SettingsAssumption DEF Mirror, Changes

\* A rollback restores valid settings exactly.
LEMMA RollbackRestores ==
    ASSUME NEW changes \in Changes, values \in [Keys -> Values],
           \A k \in Keys : values[k] \in Valid[k]
    PROVE  Apply(Apply(values, changes), Previous(ChangedKeys(changes)))
               = values
<1> DEFINE changed == Apply(values, changes)
           back == Previous(ChangedKeys(changes))
<1>1. changed \in [Keys -> Values]
  BY ApplyFacts
<1>2. back \in Changes
  BY DEF Previous, Changes
<1>3. Apply(changed, back) \in [Keys -> Values]
  BY <1>1, <1>2, ApplyFacts
<1>4. ASSUME NEW k \in Keys PROVE Apply(changed, back)[k] = values[k]
  <2>1. CASE k \in ChangedKeys(changes)
    <3>1. back[k] = values[k]
      BY <2>1 DEF Previous
    <3> QED BY <1>1, <1>2, <3>1, ApplyFacts
  <2>2. CASE k \notin ChangedKeys(changes)
    <3>1. back[k] = None /\ changes[k] = None
      BY <2>2 DEF Previous, ChangedKeys
    <3>2. Apply(changed, back)[k] = changed[k]
      BY <1>1, <1>2, <3>1, ApplyFacts
    <3>3. changed[k] = values[k]
      BY <3>1, ApplyFacts
    <3> QED BY <3>2, <3>3
  <2> QED BY <2>1, <2>2
<1> QED BY <1>3, <1>4

\* Undoing the active role keeps types and validity, and gives the settings
\* from before the first role for every key the user left alone.
LEMMA UndoneFacts ==
    ASSUME TypeOK, SettingsValid, SavedInv
    PROVE  /\ Undone \in [Keys -> Values]
           /\ StartupValid => \A k \in Keys : Undone[k] \in Valid[k]
           /\ StartupValid /\ RoleActive =>
                  \A k \in Keys \ touched : Undone[k] = before.values[k]
           /\ UndonePrompt \in Values
<1>1. values \in [Keys -> Values] /\ savedValues \in Changes
  BY DEF TypeOK
<1>2. CASE RoleActive
  <2>1. Undone = Apply(values, savedValues) /\ UndonePrompt = savedPrompt
    BY <1>2 DEF Undone, UndonePrompt
  <2>2. Undone \in [Keys -> Values] /\ UndonePrompt \in Values
    BY <1>1, <1>2, <2>1, ApplyFacts DEF TypeOK
  <2>3. ASSUME StartupValid, NEW k \in Keys PROVE Undone[k] \in Valid[k]
    BY <1>1, <2>1, <2>3, ApplyFacts DEF SettingsValid
  <2>4. ASSUME StartupValid, NEW k \in Keys \ touched
        PROVE  Undone[k] = before.values[k]
    <3>1. savedValues[k] \in Valid[k] \cup {None}
      BY <2>4 DEF SettingsValid
    <3>2. before.values[k] = IF savedValues[k] # None THEN savedValues[k]
                             ELSE values[k]
      BY <1>2, <2>4 DEF SavedInv
    <3> QED BY <1>1, <2>1, <3>1, <3>2, ApplyFacts
  <2> QED BY <2>2, <2>3, <2>4
<1>3. CASE ~RoleActive
  BY <1>1, <1>3 DEF Undone, UndonePrompt, TypeOK, SettingsValid
<1> QED BY <1>2, <1>3

-----------------------------------------------------------------------------
(***************************************************************************)
(* The provider.                                                           *)
(***************************************************************************)

\* A rebuild for keys that include every changed provider setting leaves the
\* provider in step with the settings, or says that it did not.
LEMMA RebuildFollows ==
    ASSUME TypeOK, ProviderFollowsSettings,
           NEW vals \in [Keys -> Values], NEW keys,
           Rebuild(vals, keys),
           \A k \in ProviderKeys \ keys : vals[k] = values[k]
    PROVE  /\ provider' \in Buildable
           /\ unbuilt' \in BOOLEAN
           /\ StartupValid /\ ~unbuilt' => provider' = ProviderPart(vals)
<1>1. CASE keys \cap ProviderKeys = {}
  <2>1. provider' = provider /\ unbuilt' = unbuilt
    BY <1>1 DEF Rebuild
  <2>2. ProviderPart(vals) = ProviderPart(values)
    BY <1>1 DEF ProviderPart
  <2> QED BY <2>1, <2>2 DEF TypeOK, ProviderFollowsSettings
<1>2. CASE keys \cap ProviderKeys # {} /\ ProviderPart(vals) \in Buildable
  BY <1>2 DEF Rebuild
<1>3. CASE keys \cap ProviderKeys # {} /\ ProviderPart(vals) \notin Buildable
  BY <1>3 DEF Rebuild, TypeOK
<1> QED BY <1>1, <1>2, <1>3

\* So does a command that does not rebuild.
LEMMA LeaveFollows ==
    ASSUME TypeOK, ProviderFollowsSettings, LeaveProvider
    PROVE  /\ provider' \in Buildable
           /\ unbuilt' \in BOOLEAN
           /\ StartupValid /\ ~unbuilt' => provider' = ProviderPart(values')
<1>1. provider' = provider
  BY DEF LeaveProvider
<1>2. unbuilt' = (unbuilt \/ ProviderPart(values') # ProviderPart(values))
  BY DEF LeaveProvider
<1>3. unbuilt \in BOOLEAN /\ provider \in Buildable
  BY DEF TypeOK
<1>4. unbuilt' \in BOOLEAN
  BY <1>2, <1>3
<1>5. ASSUME StartupValid, ~unbuilt' PROVE provider' = ProviderPart(values')
  <2>1. ~unbuilt /\ ProviderPart(values') = ProviderPart(values)
    BY <1>2, <1>5
  <2> QED BY <1>1, <1>5, <2>1 DEF ProviderFollowsSettings
<1> QED BY <1>1, <1>3, <1>4, <1>5

-----------------------------------------------------------------------------
(***************************************************************************)
(* Each action preserves the invariant.                                    *)
(***************************************************************************)

LEMMA InitInv == Init => SettingsInv
<1> SUFFICES ASSUME Init PROVE SettingsInv
  OBVIOUS
<1> USE SettingsAssumption DEF Init, Nothing
<1>1. TypeOK
  BY DEF TypeOK, Changes, RoleActive
<1>2. SettingsValid
  BY DEF SettingsValid, StartupValid
<1>3. ProviderFollowsSettings
  BY DEF ProviderFollowsSettings
<1>4. SavedInv
  BY DEF SavedInv, RoleActive
<1> QED BY <1>1, <1>2, <1>3, <1>4 DEF SettingsInv

LEMMA ConfigSetInv ==
    ASSUME SettingsInv, NEW key \in Keys, NEW value \in Values,
           ConfigSet(key, value)
    PROVE  SettingsInv'
<1> USE DEF SettingsInv
<1>1. /\ value \in Valid[key]
      /\ values' = [values EXCEPT ![key] = value]
      /\ promptFile' = IF key = PromptKey THEN value ELSE promptFile
      /\ Rebuild(values', {key})
      /\ touched' = touched \cup {key}
      /\ activeRole' = activeRole /\ savedValues' = savedValues
      /\ savedPrompt' = savedPrompt
      /\ file' = file /\ before' = before
  BY DEF ConfigSet, Touch, role
<1>2. values' \in [Keys -> Values]
  BY <1>1 DEF TypeOK
<1>3. \A k \in Keys \ {key} : values'[k] = values[k]
  BY <1>1 DEF TypeOK
<1>4. values'[key] = value
  BY <1>1 DEF TypeOK
<1>5. /\ provider' \in Buildable
      /\ unbuilt' \in BOOLEAN
      /\ StartupValid /\ ~unbuilt' => provider' = ProviderPart(values')
  <2>1. \A k \in ProviderKeys \ {key} : values'[k] = values[k]
    BY <1>3, SettingsAssumption
  <2> QED BY <1>1, <1>2, <2>1, RebuildFollows
<1>6. TypeOK'
  BY <1>1, <1>2, <1>5 DEF TypeOK, RoleActive
<1>7. SettingsValid'
  BY <1>1, <1>3, <1>4 DEF SettingsValid, StartupValid
<1>8. SavedInv'
  BY <1>1, <1>3 DEF SavedInv, StartupValid, RoleActive
<1> QED BY <1>5, <1>6, <1>7, <1>8 DEF ProviderFollowsSettings, StartupValid

LEMMA ConfigResetInv ==
    ASSUME SettingsInv, NEW keys \in SUBSET Keys, ConfigReset(keys)
    PROVE  SettingsInv'
<1> USE DEF SettingsInv
<1>1. /\ values' = [k \in Keys |-> IF k \in keys THEN Defaults[k]
                                   ELSE values[k]]
      /\ promptFile' = IF PromptKey \in keys THEN Defaults[PromptKey]
                       ELSE promptFile
      /\ LeaveProvider
      /\ touched' = touched \cup keys
      /\ activeRole' = activeRole /\ savedValues' = savedValues
      /\ savedPrompt' = savedPrompt
      /\ file' = file /\ before' = before
  BY DEF ConfigReset, Touch, role
<1>2. values' \in [Keys -> Values]
  BY <1>1, SettingsAssumption DEF TypeOK
<1>3. \A k \in Keys : values'[k] = IF k \in keys THEN Defaults[k]
                                   ELSE values[k]
  BY <1>1
<1>4. /\ provider' \in Buildable
      /\ unbuilt' \in BOOLEAN
      /\ StartupValid /\ ~unbuilt' => provider' = ProviderPart(values')
  BY <1>1, LeaveFollows
<1>5. TypeOK'
  BY <1>1, <1>2, <1>4, SettingsAssumption DEF TypeOK, RoleActive
<1>6. SettingsValid'
  BY <1>1, <1>3 DEF SettingsValid, StartupValid
<1>7. SavedInv'
  BY <1>1, <1>3 DEF SavedInv, StartupValid, RoleActive
<1> QED BY <1>4, <1>5, <1>6, <1>7 DEF ProviderFollowsSettings, StartupValid

LEMMA ConfigSaveInv ==
    ASSUME SettingsInv, ConfigSave
    PROVE  SettingsInv'
<1> USE DEF SettingsInv
<1>1. /\ file' \in {values, file, Nothing}
      /\ UNCHANGED <<values, promptFile, provider, activeRole, savedValues,
                     savedPrompt, before, touched, unbuilt>>
  BY DEF ConfigSave, role
<1>2. file' \in Changes
  BY <1>1 DEF TypeOK, Changes, Nothing
<1>3. TypeOK'
  BY <1>1, <1>2 DEF TypeOK, RoleActive
<1>4. SettingsValid' /\ ProviderFollowsSettings' /\ SavedInv'
  BY <1>1 DEF SettingsValid, ProviderFollowsSettings, SavedInv, StartupValid,
              RoleActive
<1> QED BY <1>3, <1>4

LEMMA ConfigLoadInv ==
    ASSUME SettingsInv, ConfigLoad
    PROVE  SettingsInv'
<1> USE DEF SettingsInv
<1>1. /\ values' = Apply(values, file)
      /\ promptFile' = Mirror(promptFile, file)
      /\ LeaveProvider
      /\ touched' = touched \cup ChangedKeys(file)
      /\ activeRole' = activeRole /\ savedValues' = savedValues
      /\ savedPrompt' = savedPrompt
      /\ file' = file /\ before' = before
  BY DEF ConfigLoad, Touch, role
<1>2. file \in Changes /\ values \in [Keys -> Values] /\ promptFile \in Values
  BY DEF TypeOK
<1>3. /\ provider' \in Buildable
      /\ unbuilt' \in BOOLEAN
      /\ StartupValid /\ ~unbuilt' => provider' = ProviderPart(values')
  BY <1>1, LeaveFollows
<1>4. TypeOK'
  <2>1. values' \in [Keys -> Values] /\ promptFile' \in Values
    BY <1>1, <1>2, ApplyFacts, MirrorType
  <2>2. touched' \subseteq Keys
    BY <1>1 DEF TypeOK, ChangedKeys
  <2> QED BY <1>1, <1>3, <2>1, <2>2 DEF TypeOK, RoleActive
<1>5. SettingsValid'
  BY <1>1, <1>2, ApplyFacts DEF SettingsValid, StartupValid
<1>6. SavedInv'
  <2>1. ASSUME NEW k \in Keys \ touched' PROVE values'[k] = values[k]
    BY <1>1, <1>2, <2>1, ApplyFacts DEF ChangedKeys
  <2> QED BY <1>1, <2>1 DEF SavedInv, StartupValid, RoleActive
<1> QED BY <1>3, <1>4, <1>5, <1>6 DEF ProviderFollowsSettings, StartupValid

LEMMA SwitchProviderInv ==
    ASSUME SettingsInv, NEW changes \in Switches, SwitchProvider(changes)
    PROVE  SettingsInv'
<1> USE DEF SettingsInv
<1> DEFINE changed == Apply(values, changes)
           back == Previous(ChangedKeys(changes))
<1>1. /\ changes \in Changes
      /\ values \in [Keys -> Values]
      /\ changed \in [Keys -> Values]
  BY SettingsAssumption, ApplyFacts DEF TypeOK
<1>2. /\ promptFile' = promptFile
      /\ activeRole' = activeRole /\ savedValues' = savedValues
      /\ savedPrompt' = savedPrompt
      /\ file' = file /\ before' = before
  BY DEF SwitchProvider, role
<1>3. CASE ProviderPart(changed) \in Buildable
  <2>1. /\ values' = changed
        /\ provider' = ProviderPart(changed)
        /\ unbuilt' = FALSE
        /\ touched' = touched \cup ChangedKeys(changes)
    BY <1>3 DEF SwitchProvider, Touch
  <2>2. TypeOK'
    BY <1>1, <1>2, <1>3, <2>1 DEF TypeOK, RoleActive, ChangedKeys
  <2>3. SettingsValid'
    BY <1>1, <1>2, <2>1, ApplyFacts DEF SettingsValid, StartupValid
  <2>4. SavedInv'
    <3>1. ASSUME NEW k \in Keys \ touched' PROVE values'[k] = values[k]
      BY <1>1, <2>1, <3>1, ApplyFacts DEF ChangedKeys
    <3> QED BY <1>2, <2>1, <3>1 DEF SavedInv, StartupValid, RoleActive
  <2> QED BY <2>1, <2>2, <2>3, <2>4 DEF ProviderFollowsSettings
<1>4. CASE ProviderPart(changed) \notin Buildable
  <2>1. /\ values' = Apply(changed, back)
        /\ provider' = provider /\ unbuilt' = unbuilt /\ touched' = touched
    BY <1>4 DEF SwitchProvider
  <2>2. values' \in [Keys -> Values]
    <3>1. back \in Changes
      BY <1>1 DEF Previous, Changes
    <3> QED BY <1>1, <2>1, <3>1, ApplyFacts
  <2>3. StartupValid => values' = values
    BY <1>1, <2>1, RollbackRestores DEF SettingsValid
  <2>4. TypeOK'
    BY <1>2, <2>1, <2>2 DEF TypeOK, RoleActive
  <2>5. SettingsValid' /\ ProviderFollowsSettings' /\ SavedInv'
    BY <1>2, <2>1, <2>3 DEF SettingsValid, ProviderFollowsSettings, SavedInv,
                            StartupValid, RoleActive
  <2> QED BY <2>4, <2>5
<1> QED BY <1>3, <1>4

\* What a load saves is typed, and valid if what it undid is.
LEMMA SaveForFacts ==
    ASSUME SettingsInv, NEW r \in Roles, SaveFor(r)
    PROVE  /\ savedValues' \in Changes
           /\ savedPrompt' \in Values
           /\ \A k \in Keys : Overrides[r][k] = None => savedValues'[k] = None
           /\ \A k \in Keys : Overrides[r][k] # None =>
                  savedValues'[k] = Undone[k]
           /\ StartupValid => \A k \in Keys :
                  savedValues'[k] \in Valid[k] \cup {None}
BY UndoneFacts DEF SaveFor, SettingsInv, Changes

LEMMA LoadRoleInv ==
    ASSUME SettingsInv, NEW r \in Roles, LoadRole(r)
    PROVE  SettingsInv'
<1> USE DEF SettingsInv
<1>1. /\ SaveFor(r)
      /\ values' = Apply(Undone, Overrides[r])
      /\ promptFile' = IF Prompt[r] # None THEN Prompt[r]
                       ELSE Mirror(UndonePrompt, Overrides[r])
      /\ Rebuild(values', ChangedByLoad(r))
      /\ activeRole' = r
      /\ IF RoleActive
         THEN before' = before /\ touched' = touched
         ELSE /\ before' = [values |-> values, prompt |-> promptFile]
              /\ touched' = {}
      /\ file' = file
  BY DEF LoadRole
<1>2. /\ Undone \in [Keys -> Values]
      /\ StartupValid => \A k \in Keys : Undone[k] \in Valid[k]
      /\ StartupValid /\ RoleActive =>
             \A k \in Keys \ touched : Undone[k] = before.values[k]
      /\ UndonePrompt \in Values
  BY UndoneFacts
<1>3. Overrides[r] \in Changes /\ Prompt[r] \in Values \cup {None} /\ r # None
  BY SettingsAssumption
<1>4. values' \in [Keys -> Values]
  BY <1>1, <1>2, <1>3, ApplyFacts
<1>5. /\ provider' \in Buildable
      /\ unbuilt' \in BOOLEAN
      /\ StartupValid /\ ~unbuilt' => provider' = ProviderPart(values')
  <2>1. ASSUME NEW k \in ProviderKeys \ ChangedByLoad(r)
        PROVE  values'[k] = values[k]
    <3>1. k \in Keys /\ Overrides[r][k] = None
      BY <2>1, SettingsAssumption DEF ChangedByLoad, ChangedKeys
    <3>2. values'[k] = Undone[k]
      BY <1>1, <1>2, <1>3, <3>1, ApplyFacts
    <3>3. CASE RoleActive
      <4>1. savedValues[k] = None
        BY <2>1, <3>1, <3>3 DEF ChangedByLoad, ChangedKeys
      <4>2. Apply(values, savedValues)[k] = values[k]
        BY <3>1, <4>1, ApplyFacts DEF TypeOK
      <4> QED BY <3>2, <3>3, <4>2 DEF Undone
    <3>4. CASE ~RoleActive
      BY <3>2, <3>4 DEF Undone
    <3> QED BY <3>3, <3>4
  <2> QED BY <1>1, <1>4, <2>1, RebuildFollows
<1>6. TypeOK'
  <2>1. savedValues' \in Changes /\ savedPrompt' \in Values
    BY <1>1, SaveForFacts
  <2>2. promptFile' \in Values
    BY <1>1, <1>2, <1>3, MirrorType
  <2>3. /\ before' \in [values : [Keys -> Values], prompt : Values]
        /\ touched' \subseteq Keys
    BY <1>1 DEF TypeOK
  <2>4. RoleActive' => savedPrompt' # None
    BY <2>1, SettingsAssumption
  <2> QED BY <1>1, <1>4, <1>5, <2>1, <2>2, <2>3, <2>4 DEF TypeOK
<1>7. SettingsValid'
  <2>1. ASSUME StartupValid, NEW k \in Keys
        PROVE  values'[k] \in Valid[k] /\ savedValues'[k] \in Valid[k] \cup {None}
    BY <1>1, <1>2, <1>3, <2>1, ApplyFacts, SaveForFacts
  <2> QED BY <2>1 DEF SettingsValid, StartupValid
<1>8. SavedInv'
  <2>1. ASSUME StartupValid
        PROVE  /\ savedPrompt' = before'.prompt
               /\ \A k \in Keys \ touched' :
                      before'.values[k] = Undone[k]
    <3>1. CASE RoleActive
      BY <1>1, <1>2, <2>1, <3>1 DEF SaveFor, UndonePrompt, SavedInv
    <3>2. CASE ~RoleActive
      BY <1>1, <3>2 DEF SaveFor, UndonePrompt, Undone
    <3> QED BY <3>1, <3>2
  <2>2. ASSUME NEW k \in Keys
        PROVE  Undone[k] = IF savedValues'[k] # None THEN savedValues'[k]
                           ELSE values'[k]
    <3>1. CASE Overrides[r][k] = None
      <4>1. savedValues'[k] = None
        BY <1>1, <3>1, SaveForFacts
      <4>2. values'[k] = Undone[k]
        BY <1>1, <1>2, <1>3, <3>1, ApplyFacts
      <4> QED BY <4>1, <4>2
    <3>2. CASE Overrides[r][k] # None
      <4>1. savedValues'[k] = Undone[k]
        BY <1>1, <3>2, SaveForFacts
      <4>2. Undone[k] # None
        BY <1>2, SettingsAssumption
      <4> QED BY <4>1, <4>2
    <3> QED BY <3>1, <3>2
  <2> QED BY <2>1, <2>2 DEF SavedInv, StartupValid
<1> QED BY <1>5, <1>6, <1>7, <1>8 DEF ProviderFollowsSettings, StartupValid

LEMMA LoadRoleFailsInv ==
    ASSUME SettingsInv, NEW r \in Roles, LoadRoleFails(r)
    PROVE  SettingsInv'
<1> USE DEF SettingsInv
<1> DEFINE tried == Apply(Undone, Overrides[r])
<1>1. /\ SaveFor(r)
      /\ values' = Apply(tried, savedValues')
      /\ promptFile' = Mirror(Mirror(UndonePrompt, Overrides[r]), savedValues')
      /\ LeaveProvider
      /\ activeRole' = activeRole /\ file' = file
      /\ before' = before /\ touched' = touched
  BY DEF LoadRoleFails
<1>2. /\ Undone \in [Keys -> Values]
      /\ StartupValid => \A k \in Keys : Undone[k] \in Valid[k]
      /\ StartupValid /\ RoleActive =>
             \A k \in Keys \ touched : Undone[k] = before.values[k]
      /\ UndonePrompt \in Values
  BY UndoneFacts
<1>3. Overrides[r] \in Changes
  BY SettingsAssumption
<1>4. /\ savedValues' \in Changes
      /\ savedPrompt' \in Values
  BY <1>1, SaveForFacts
<1>5. tried \in [Keys -> Values] /\ values' \in [Keys -> Values]
  <2>1. tried \in [Keys -> Values]
    BY <1>2, <1>3, ApplyFacts
  <2> QED BY <1>1, <1>4, <2>1, ApplyFacts
<1>6. /\ provider' \in Buildable
      /\ unbuilt' \in BOOLEAN
      /\ StartupValid /\ ~unbuilt' => provider' = ProviderPart(values')
  BY <1>1, LeaveFollows
<1>7. TypeOK'
  <2>1. promptFile' \in Values
    <3>1. Mirror(UndonePrompt, Overrides[r]) \in Values
      BY <1>2, <1>3, MirrorType
    <3> QED BY <1>1, <1>4, <3>1, MirrorType
  <2>2. savedPrompt' # None
    BY <1>4, SettingsAssumption
  <2> QED BY <1>1, <1>4, <1>5, <1>6, <2>1, <2>2 DEF TypeOK
<1>8. SettingsValid'
  <2>1. ASSUME StartupValid, NEW k \in Keys
        PROVE  values'[k] \in Valid[k] /\ savedValues'[k] \in Valid[k] \cup {None}
    <3>1. tried[k] \in Valid[k]
      BY <1>2, <1>3, <2>1, ApplyFacts
    <3>2. values'[k] \in Valid[k]
      BY <1>1, <1>4, <1>5, <2>1, <3>1, ApplyFacts
    <3> QED BY <1>1, <2>1, <3>2, SaveForFacts
  <2> QED BY <2>1 DEF SettingsValid, StartupValid
<1>9. SavedInv'
  <2>1. ASSUME StartupValid, RoleActive
        PROVE  savedPrompt' = before'.prompt
    BY <1>1, <2>1 DEF SaveFor, UndonePrompt, SavedInv
  <2>2. ASSUME StartupValid, RoleActive, NEW k \in Keys \ touched
        PROVE  before.values[k] = IF savedValues'[k] # None
                                  THEN savedValues'[k] ELSE values'[k]
    <3>1. before.values[k] = Undone[k]
      BY <1>2, <2>2
    <3>2. CASE Overrides[r][k] = None
      <4>1. savedValues'[k] = None
        BY <1>1, <3>2, SaveForFacts
      <4>2. values'[k] = tried[k]
        BY <1>1, <1>4, <1>5, <4>1, ApplyFacts
      <4>3. tried[k] = Undone[k]
        BY <1>2, <1>3, <3>2, ApplyFacts
      <4> QED BY <3>1, <4>1, <4>2, <4>3
    <3>3. CASE Overrides[r][k] # None
      <4>1. savedValues'[k] = Undone[k]
        BY <1>1, <3>3, SaveForFacts
      <4>2. Undone[k] # None
        BY <1>2, SettingsAssumption
      <4> QED BY <3>1, <4>1, <4>2
    <3> QED BY <3>2, <3>3
  <2> QED BY <1>1, <2>1, <2>2 DEF SavedInv, StartupValid, RoleActive
<1> QED BY <1>6, <1>7, <1>8, <1>9 DEF ProviderFollowsSettings, StartupValid

LEMMA UnloadRoleInv ==
    ASSUME SettingsInv, UnloadRole
    PROVE  SettingsInv'
<1> USE DEF SettingsInv
<1>1. /\ RoleActive
      /\ values' = Apply(values, savedValues)
      /\ promptFile' = savedPrompt
      /\ Rebuild(values', ChangedKeys(savedValues))
      /\ activeRole' = None /\ savedValues' = Nothing /\ savedPrompt' = None
      /\ file' = file /\ before' = before /\ touched' = touched
  BY DEF UnloadRole
<1>2. values \in [Keys -> Values] /\ savedValues \in Changes
  BY DEF TypeOK
<1>3. values' \in [Keys -> Values]
  BY <1>1, <1>2, ApplyFacts
<1>4. /\ provider' \in Buildable
      /\ unbuilt' \in BOOLEAN
      /\ StartupValid /\ ~unbuilt' => provider' = ProviderPart(values')
  <2>1. ASSUME NEW k \in ProviderKeys \ ChangedKeys(savedValues)
        PROVE  values'[k] = values[k]
    <3>1. k \in Keys /\ savedValues[k] = None
      BY <2>1, SettingsAssumption DEF ChangedKeys
    <3> QED BY <1>1, <1>2, <3>1, ApplyFacts
  <2> QED BY <1>1, <1>3, <2>1, RebuildFollows
<1>5. TypeOK'
  <2>1. Nothing \in Changes
    BY DEF Nothing, Changes
  <2>2. promptFile' \in Values
    BY <1>1 DEF TypeOK
  <2>3. ~RoleActive'
    BY <1>1 DEF RoleActive
  <2> QED BY <1>1, <1>3, <1>4, <2>1, <2>2, <2>3 DEF TypeOK
<1>6. SettingsValid'
  <2>1. ASSUME StartupValid, NEW k \in Keys
        PROVE  values'[k] \in Valid[k] /\ savedValues'[k] = None
    BY <1>1, <1>2, <2>1, ApplyFacts DEF SettingsValid, Nothing
  <2> QED BY <2>1 DEF SettingsValid, StartupValid
<1>7. SavedInv'
  BY <1>1 DEF SavedInv, RoleActive
<1> QED BY <1>4, <1>5, <1>6, <1>7 DEF ProviderFollowsSettings, StartupValid

-----------------------------------------------------------------------------
(***************************************************************************)
(* The theorems.                                                           *)
(***************************************************************************)

LEMMA NextInv ==
    ASSUME SettingsInv, [Next]_vars
    PROVE  SettingsInv'
<1>1. CASE \E key \in Keys : \E value \in Values : ConfigSet(key, value)
  BY <1>1, ConfigSetInv
<1>2. CASE \E keys \in {Keys} \cup {{k} : k \in Keys} : ConfigReset(keys)
  <2>1. PICK keys \in {Keys} \cup {{k} : k \in Keys} : ConfigReset(keys)
    BY <1>2
  <2>2. keys \in SUBSET Keys
    OBVIOUS
  <2> QED BY <2>1, <2>2, ConfigResetInv
<1>3. CASE ConfigSave
  BY <1>3, ConfigSaveInv
<1>4. CASE ConfigLoad
  BY <1>4, ConfigLoadInv
<1>5. CASE \E changes \in Switches : SwitchProvider(changes)
  BY <1>5, SwitchProviderInv
<1>6. CASE \E r \in Roles : LoadRole(r) \/ LoadRoleFails(r)
  BY <1>6, LoadRoleInv, LoadRoleFailsInv
<1>7. CASE UnloadRole
  BY <1>7, UnloadRoleInv
<1>8. CASE UNCHANGED vars
  BY <1>8 DEF vars, role, SettingsInv, TypeOK, SettingsValid, StartupValid,
              ProviderFollowsSettings, SavedInv, RoleActive
<1> QED BY <1>1, <1>2, <1>3, <1>4, <1>5, <1>6, <1>7, <1>8 DEF Next

LEMMA SettingsInductive == Spec => []SettingsInv
<1>1. Init => SettingsInv
  BY InitInv
<1>2. SettingsInv /\ [Next]_vars => SettingsInv'
  BY NextInv
<1> QED BY <1>1, <1>2, PTL DEF Spec

\* Every setting has a value of its kind, and the provider in use is always one
\* that could be built, whatever commands fail.
THEOREM SettingsTypeCorrect == Spec => []TypeOK
<1>1. SettingsInv => TypeOK
  BY DEF SettingsInv
<1> QED BY <1>1, SettingsInductive, PTL

\* No command, rollback, role or configuration file makes a setting invalid.
THEOREM SettingsStayValid == Spec => []SettingsValid
<1>1. SettingsInv => SettingsValid
  BY DEF SettingsInv
<1> QED BY <1>1, SettingsInductive, PTL

\* The active provider is the one the settings describe, but after a /config
\* command that does not rebuild or a rebuild that failed.
THEOREM ProviderStaysInStep == Spec => []ProviderFollowsSettings
<1>1. SettingsInv => ProviderFollowsSettings
  BY DEF SettingsInv
<1> QED BY <1>1, SettingsInductive, PTL

\* Unloading restores the settings and the prompt from before the first role.
THEOREM UnloadingRestores == Spec => UnloadRestores
<1>1. ASSUME SettingsInv, [Next]_vars, StartupValid, RoleActive,
             activeRole' = None
      PROVE  /\ \A k \in Keys \ touched : values'[k] = before.values[k]
             /\ promptFile' = before.prompt
  <2>1. UnloadRole
    <3>1. activeRole' # activeRole
      BY <1>1 DEF RoleActive
    <3>2. ASSUME NEW r \in Roles, LoadRole(r) PROVE FALSE
      BY <1>1, <3>2, SettingsAssumption DEF LoadRole
    <3> QED BY <1>1, <3>1, <3>2 DEF Next, vars, role, ConfigSet, ConfigReset,
               ConfigSave, ConfigLoad, SwitchProvider, LoadRoleFails
  <2>2. values' = Apply(values, savedValues) /\ promptFile' = savedPrompt
    BY <2>1 DEF UnloadRole
  <2>3. promptFile' = before.prompt
    BY <1>1, <2>2 DEF SettingsInv, SavedInv
  <2>4. ASSUME NEW k \in Keys \ touched PROVE values'[k] = before.values[k]
    <3>1. before.values[k] = IF savedValues[k] # None THEN savedValues[k]
                             ELSE values[k]
      BY <1>1, <2>4 DEF SettingsInv, SavedInv
    <3>2. savedValues[k] \in Valid[k] \cup {None}
      BY <1>1, <2>4 DEF SettingsInv, SettingsValid
    <3>3. values \in [Keys -> Values] /\ savedValues \in Changes
      BY <1>1 DEF SettingsInv, TypeOK
    <3> QED BY <2>2, <3>1, <3>2, <3>3, ApplyFacts
  <2> QED BY <2>3, <2>4
<1>2. SettingsInv /\ [Next]_vars =>
          (StartupValid /\ RoleActive /\ activeRole' = None =>
               /\ \A k \in Keys \ touched : values'[k] = before.values[k]
               /\ promptFile' = before.prompt)
  BY <1>1
<1> QED BY <1>2, SettingsInductive, PTL DEF Spec, UnloadRestores

=============================================================================
