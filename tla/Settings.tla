------------------------------- MODULE Settings -------------------------------
(***************************************************************************)
(* The settings of the running program and what is derived from them:      *)
(* ConfigManager (utils/config_manager.py), the role in force              *)
(* (utils/roles.py) and the active provider (utils/llm.py).  The commands  *)
(* that change them run one after the other: /config and /provider in the  *)
(* frontend's thread while the agent is idle, /role in the agent's thread  *)
(* while the frontend waits.                                               *)
(*                                                                         *)
(* A change is a function that gives the keys it leaves alone None.        *)
(***************************************************************************)
EXTENDS FiniteSets

CONSTANTS
    Keys,           \* the keys of _SCHEMA
    ProviderKeys,   \* PROVIDER_KEYS, those that shape the provider
    PromptKey,      \* SYSTEM_PROMPT_FILE, which a role also sets directly
    Values,
    Valid,          \* what _coerce and the validator of each key admit
    Defaults,       \* the values at startup
    Buildable,      \* provider settings a provider can be built from
    Roles,          \* the role files that parse
    Overrides,      \* the [config] of each; an unknown key counts as invalid
    Prompt,         \* the system_prompt_file of each
    Switches,       \* the changes /provider makes, one per alias and model
    Files           \* what a configuration file may hold beforehand

None == "none"

Changes == [Keys -> Values \cup {None}]
Nothing == [k \in Keys |-> None]

ChangedKeys(changes) == {k \in Keys : changes[k] # None}

ProviderPart(vals) == [k \in ProviderKeys |-> vals[k]]

\* What the environment gives at startup is not validated.
StartupValid == \A k \in Keys : Defaults[k] \in Valid[k]

ASSUME SettingsAssumption ==
    /\ ProviderKeys \subseteq Keys
    /\ PromptKey \in Keys \ ProviderKeys
    /\ None \notin Values \cup Roles
    /\ Valid \in [Keys -> SUBSET Values]
    /\ Defaults \in [Keys -> Values]
    /\ ProviderPart(Defaults) \in Buildable
    /\ Overrides \in [Roles -> Changes]
    /\ Prompt \in [Roles -> Values \cup {None}]
    /\ Switches \subseteq Changes
    /\ \A s \in Switches : \A k \in ChangedKeys(s) :
           k \in ProviderKeys /\ s[k] \in Valid[k]
    /\ Files \subseteq Changes

VARIABLES
    values,         \* ConfigManager._values, mirrored in utils.config
    promptFile,     \* utils.config.SYSTEM_PROMPT_FILE
    provider,       \* the settings utils.llm.llm was built from
    activeRole,     \* roles._active_role
    savedValues,    \* roles._saved_config_values
    savedPrompt,    \* roles._saved_prompt_file
    file,           \* the saved configuration
    before,         \* history: the settings when a role was first loaded
    touched,        \* history: keys changed by the user since then
    unbuilt         \* history: whether a /config or /role command left the
                    \* provider behind the settings

role == <<activeRole, savedValues, savedPrompt>>
vars == <<values, promptFile, provider, role, file, before, touched, unbuilt>>

Init ==
    /\ values = Defaults
    /\ promptFile = Defaults[PromptKey]
    /\ provider = ProviderPart(Defaults)
    /\ activeRole = None
    /\ savedValues = Nothing
    /\ savedPrompt = None
    /\ file \in Files
    /\ before = [values |-> Defaults, prompt |-> Defaults[PromptKey]]
    /\ touched = {}
    /\ unbuilt = FALSE

-----------------------------------------------------------------------------
(***************************************************************************)
(* Several calls of ConfigManager.set, of which those that are invalid     *)
(* raise and change nothing, and the mirror of SYSTEM_PROMPT_FILE.         *)
(***************************************************************************)

Applicable(changes) == \A k \in ChangedKeys(changes) : changes[k] \in Valid[k]

\* Mutant: what a file or a role holds is taken as it is.
ApplyUnchecked(vals, changes) ==
    [k \in Keys |-> IF changes[k] # None THEN changes[k] ELSE vals[k]]

Apply(vals, changes) ==
    [k \in Keys |-> IF changes[k] \in Valid[k] THEN changes[k] ELSE vals[k]]

Mirror(prompt, changes) ==
    IF changes[PromptKey] \in Valid[PromptKey]
    THEN changes[PromptKey] ELSE prompt

\* Mutant: the old provider is given up before the new one is built.
RebuildBlindly(vals, keys) ==
    IF keys \cap ProviderKeys = {}
    THEN UNCHANGED <<provider, unbuilt>>
    ELSE provider' = ProviderPart(vals) /\ unbuilt' = FALSE

\* rebuild_provider, if a provider setting is among the keys; if the build
\* fails, the old provider stays and the command reports it.
Rebuild(vals, keys) ==
    IF keys \cap ProviderKeys = {}
    THEN UNCHANGED <<provider, unbuilt>>
    ELSE IF ProviderPart(vals) \in Buildable
         THEN provider' = ProviderPart(vals) /\ unbuilt' = FALSE
         ELSE UNCHANGED provider /\ unbuilt' = TRUE

\* No rebuild, though provider settings may have changed.
LeaveProvider ==
    /\ UNCHANGED provider
    /\ unbuilt' = (unbuilt \/ ProviderPart(values') # ProviderPart(values))

-----------------------------------------------------------------------------
(***************************************************************************)
(* /config and /provider.                                                  *)
(***************************************************************************)

Touch(keys) == touched' = touched \cup keys

ConfigSet(key, value) ==
    /\ value \in Valid[key]
    /\ values' = [values EXCEPT ![key] = value]
    /\ promptFile' = IF key = PromptKey THEN value ELSE promptFile
    /\ Rebuild(values', {key})
    /\ Touch({key})
    /\ UNCHANGED <<role, file, before>>

ConfigReset(keys) ==
    /\ values' = [k \in Keys |-> IF k \in keys THEN Defaults[k] ELSE values[k]]
    /\ promptFile' = IF PromptKey \in keys THEN Defaults[PromptKey]
                     ELSE promptFile
    /\ LeaveProvider
    /\ Touch(keys)
    /\ UNCHANGED <<role, file, before>>

\* A save that fails leaves the file alone, or one that cannot be loaded.
ConfigSave ==
    /\ file' \in {values, file, Nothing}
    /\ UNCHANGED <<values, promptFile, provider, role, before, touched,
                   unbuilt>>

ConfigLoad ==
    /\ values' = Apply(values, file)
    /\ promptFile' = Mirror(promptFile, file)
    /\ LeaveProvider
    /\ Touch(ChangedKeys(file))
    /\ UNCHANGED <<role, file, before>>

\* What a rollback puts back: the value of each key that is to be changed.
Previous(keys) == [k \in Keys |-> IF k \in keys THEN values[k] ELSE None]

\* switch_provider: sets the keys, builds, and sets them back if that fails.
SwitchProvider(changes) ==
    LET changed == Apply(values, changes)
    IN  /\ IF ProviderPart(changed) \in Buildable
           THEN /\ values' = changed
                /\ provider' = ProviderPart(changed)
                /\ unbuilt' = FALSE
                /\ Touch(ChangedKeys(changes))
           ELSE /\ values' = Apply(changed, Previous(ChangedKeys(changes)))
                /\ UNCHANGED <<provider, unbuilt, touched>>
        /\ UNCHANGED <<promptFile, role, file, before>>

-----------------------------------------------------------------------------
(***************************************************************************)
(* Roles.  Loading a role over another first undoes the other, so that     *)
(* what it saves are the settings without any role.                        *)
(***************************************************************************)

RoleActive == activeRole # None

\* Mutant: what the role before had overridden is saved as the settings.
UndoneNot == values

Undone == IF RoleActive THEN Apply(values, savedValues) ELSE values

UndonePrompt == IF RoleActive THEN savedPrompt ELSE promptFile

\* Load saves what the role will override, and the prompt file.
SaveFor(r) ==
    /\ savedValues' = [k \in Keys |->
                          IF Overrides[r][k] # None THEN Undone[k] ELSE None]
    /\ savedPrompt' = UndonePrompt

\* Mutant: the settings of the role that is replaced are forgotten.
ChangedByRole(r) == ChangedKeys(Overrides[r])

ChangedByLoad(r) ==
    ChangedKeys(Overrides[r]) \cup
        (IF RoleActive THEN ChangedKeys(savedValues) ELSE {})

LoadRole(r) ==
    /\ Applicable(Overrides[r])
    /\ SaveFor(r)
    /\ values' = Apply(Undone, Overrides[r])
    /\ promptFile' = IF Prompt[r] # None THEN Prompt[r]
                     ELSE Mirror(UndonePrompt, Overrides[r])
    /\ Rebuild(values', ChangedByLoad(r))
    /\ activeRole' = r
    /\ IF RoleActive
       THEN UNCHANGED <<before, touched>>
       ELSE /\ before' = [values |-> values, prompt |-> promptFile]
            /\ touched' = {}
    /\ UNCHANGED file

\* An override is invalid: what was set is restored and the error raised,
\* but a role that was active has been undone and stays the active one.
LoadRoleFails(r) ==
    /\ ~Applicable(Overrides[r])
    /\ SaveFor(r)
    /\ values' = Apply(Apply(Undone, Overrides[r]), savedValues')
    /\ promptFile' = Mirror(Mirror(UndonePrompt, Overrides[r]), savedValues')
    /\ LeaveProvider
    /\ UNCHANGED <<activeRole, file, before, touched>>

UnloadRole ==
    /\ RoleActive
    /\ values' = Apply(values, savedValues)
    /\ promptFile' = savedPrompt
    /\ Rebuild(values', ChangedKeys(savedValues))
    /\ activeRole' = None /\ savedValues' = Nothing /\ savedPrompt' = None
    /\ UNCHANGED <<file, before, touched>>

-----------------------------------------------------------------------------

Next ==
    \/ \E key \in Keys : \E value \in Values : ConfigSet(key, value)
    \/ \E keys \in {Keys} \cup {{k} : k \in Keys} : ConfigReset(keys)
    \/ ConfigSave
    \/ ConfigLoad
    \/ \E changes \in Switches : SwitchProvider(changes)
    \/ \E r \in Roles : LoadRole(r) \/ LoadRoleFails(r)
    \/ UnloadRole

Spec == Init /\ [][Next]_vars

-----------------------------------------------------------------------------
(***************************************************************************)
(* Properties.                                                             *)
(***************************************************************************)

\* Types; and the provider in use is always one that could be built.
TypeOK ==
    /\ values \in [Keys -> Values]
    /\ promptFile \in Values
    /\ provider \in Buildable
    /\ activeRole \in Roles \cup {None}
    /\ savedValues \in Changes
    /\ savedPrompt \in Values \cup {None}
    /\ RoleActive => savedPrompt # None
    /\ file \in Changes
    /\ before \in [values : [Keys -> Values], prompt : Values]
    /\ touched \subseteq Keys
    /\ unbuilt \in BOOLEAN

\* If the values at startup are valid, no sequence of commands, rollbacks,
\* undone roles and configuration files makes one invalid; nor is an invalid
\* one kept for the role to be undone, which could then not be set again.
SettingsValid ==
    StartupValid =>
        \A k \in Keys : /\ values[k] \in Valid[k]
                        /\ savedValues[k] \in Valid[k] \cup {None}

\* "The configuration is the single source of truth for the active provider"
\* (agent.md:27): the active provider is the one the settings describe, unless
\* a /config command that does not rebuild or a rebuild that failed came in
\* between.  In particular a /provider that fails, and a role that replaces
\* another, leave the two in step.
ProviderFollowsSettings ==
    StartupValid /\ ~unbuilt => provider = ProviderPart(values)

\* What is kept for unloading, whichever roles were loaded one over the other
\* or failed to load: the settings before the first of them, not those of the
\* role that was replaced (utils/roles.py:277-279).
SavedInv ==
    StartupValid /\ RoleActive =>
        /\ savedPrompt = before.prompt
        /\ \A k \in Keys \ touched :
               before.values[k] = IF savedValues[k] # None THEN savedValues[k]
                                  ELSE values[k]

\* So unloading puts back what was there before the first role, but for what
\* the user set meanwhile.
UnloadRestores ==
    [][StartupValid /\ RoleActive /\ activeRole' = None =>
           /\ \A k \in Keys \ touched : values'[k] = before.values[k]
           /\ promptFile' = before.prompt]_vars

\* The overrides of the active role hold, but for what the user set meanwhile:
\* a role that cannot be loaded changes nothing ("Restore what we changed so
\* far before raising", utils/roles.py:312).
RoleInForce ==
    RoleActive =>
        \A k \in ChangedKeys(Overrides[activeRole]) \ touched :
            values[k] = Overrides[activeRole][k]

=============================================================================
