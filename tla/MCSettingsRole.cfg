CONSTANTS
    Keys <- MCKeys
    ProviderKeys <- MCProviderKeys
    PromptKey <- MCPromptKey
    Values <- MCValues
    Valid <- MCValid
    Defaults <- MCDefaults
    Buildable <- MCBuildable
    Roles <- MCRoles
    Overrides <- MCOverrides
    Prompt <- MCPrompt
    Switches <- MCSwitches
    Files <- MCFiles
SPECIFICATION Spec
INVARIANT RoleInForce
