------------------------------ MODULE MCSettings ------------------------------
(***************************************************************************)
(* Two settings that shape the provider, one that does not, and three      *)
(* roles: one that changes the model and brings a prompt of its own, one   *)
(* that overrides the prompt file, and one with an invalid override.       *)
(***************************************************************************)
EXTENDS Settings

MCKeys == {"LLM_PROVIDER", "OPENAI_MODEL", "SYSTEM_PROMPT_FILE"}
MCProviderKeys == {"LLM_PROVIDER", "OPENAI_MODEL"}
MCPromptKey == "SYSTEM_PROMPT_FILE"
MCValues == {"a", "b", ""}
MCValid == [k \in MCKeys |-> {"a", "b"}]
MCDefaults == [k \in MCKeys |-> "a"]

Change(key, value) == [k \in MCKeys |-> IF k = key THEN value ELSE None]

\* No client can be built for this model at this provider.
MCBuildable ==
    {p \in [MCProviderKeys -> {"a", "b"}] :
        p # [k \in MCProviderKeys |-> "b"]}

MCRoles == {"researcher", "writer", "broken"}

MCOverrides ==
    [researcher |-> Change("OPENAI_MODEL", "b"),
     writer |-> Change("SYSTEM_PROMPT_FILE", "b"),
     broken |-> [Change("LLM_PROVIDER", "b") EXCEPT !["OPENAI_MODEL"] = ""]]

MCPrompt == [researcher |-> "b", writer |-> None, broken |-> None]

MCSwitches ==
    {Change("LLM_PROVIDER", "a"), Change("LLM_PROVIDER", "b"),
     [Change("LLM_PROVIDER", "b") EXCEPT !["OPENAI_MODEL"] = "b"]}

MCFiles == {Nothing, Change("OPENAI_MODEL", ""), Change("LLM_PROVIDER", "b")}

=============================================================================
