----------------------------- MODULE ConfigRules -----------------------------
(***************************************************************************)
(* The rules of profiles.toml, and how a command finds what it asks for:   *)
(* its profile, the app and secret behind it, and the repositories.        *)
(*                                                                         *)
(* A configuration is its version, its default profile and its profiles by *)
(* name.  Names and accounts are numbers, 0 for none or blank; profiles    *)
(* are validated in the order of their names.                              *)
(***************************************************************************)
EXTENDS RepositorySelection

Unset == 0

App(account, client_id, secret) ==
    [kind |-> "app", account |-> account, client_id |-> client_id, secret |-> secret,
     source |-> Unset, repo |-> <<>>, permissions |-> {}]

Scoped(source, repo, permissions) ==
    [kind |-> "scoped", account |-> Unset, client_id |-> "blank", secret |-> "unset",
     source |-> source, repo |-> repo, permissions |-> permissions]

Names(config) == DOMAIN config.profile

AnyProfile ==
    [kind: {"app"}, account: Nat, client_id: {"blank", "set"}, secret: {"unset", "blank", "set"},
     source: {Unset}, repo: {<<>>}, permissions: {{}}]
      \union
    [kind: {"scoped"}, account: {Unset}, client_id: {"blank"}, secret: {"unset"},
     source: Nat \ {Unset}, repo: Seq(AnyWord), permissions: SUBSET {"read", "write"}]

IsConfig(config) ==
    /\ config = [version |-> config.version, default |-> config.default, profile |-> config.profile]
    /\ config.version \in Nat /\ config.default \in Nat
    /\ Names(config) \in SUBSET (Nat \ {Unset})
    /\ \A n \in Names(config): config.profile[n] \in AnyProfile

-----------------------------------------------------------------------------
\* Mutant: a secret of spaces passes.
InvalidAppSecretUnchecked(app) == app.account = Unset \/ app.client_id = "blank"

InvalidApp(app) ==
    \/ app.account = Unset \/ app.client_id = "blank"
    \/ app.secret = "blank"

\* The error in one profile, or "none".
ProfileError(config, name) ==
    LET profile == config.profile[name]
        source == config.profile[profile.source]
    IN  IF profile.kind = "app"
        THEN IF InvalidApp(profile) THEN "InvalidAppProfile" ELSE "none"
        ELSE CASE profile.permissions = {} -> "InvalidScopedProfile"
               [] profile.source \notin Names(config) -> "ScopedSourceNotFound"
               [] source.kind # "app" -> "ScopedFromNonApp"
               [] source.secret = "unset" -> "ScopedFromSecretlessApp"
               [] OTHER -> "none"

\* validate_config: the first error, or "none".
Validate(config) ==
    LET wrong == {n \in Names(config): ProfileError(config, n) # "none"}
    IN  CASE config.version # 1 -> "UnsupportedVersion"
          [] config.default \notin Names(config) \union {Unset} -> "MissingDefaultProfile"
          [] wrong # {} -> ProfileError(config, Min(wrong))
          [] OTHER -> "none"

Valid(config) == Validate(config) = "none"

-----------------------------------------------------------------------------
\* The arguments of a command; a profile that is not given is Unset.
AnyArguments ==
    [command: {"login", "token", "run"}, profile: Nat, env: Nat, repo: Seq(AnyWord)]

\* resolve_profile_name: --profile, GHST_PROFILE unless blank, the default;
\* Unset stands for ProfileRequired.
ResolveProfileName(cli, env, config) ==
    IF cli # Unset THEN cli ELSE IF env # Unset THEN env ELSE config.default

\* resolve_token_profile: the profile, its source, and the app to be used.
ResolveTokenProfile(config, name) ==
    LET Refused(error) == [error |-> error, source |-> Unset]
        profile == config.profile[name]
        source == config.profile[profile.source]
    IN  IF name \notin Names(config) THEN Refused("ProfileNotFound")
        ELSE IF profile.kind = "app" THEN [error |-> "none", source |-> name]
        ELSE CASE profile.source \notin Names(config) -> Refused("ScopedSourceNotFound")
               [] source.kind # "app" -> Refused("ScopedFromNonApp")
               [] source.secret = "unset" -> Refused("ScopedFromSecretlessApp")
               [] OTHER -> [error |-> "none", source |-> profile.source]

Refusal(error) == [error |-> error, profile |-> Unset, source |-> Unset, selection |-> Unselected]

\* What `ghst login`, `ghst token` and `ghst run` refuse of a profile of a kind:
\* run_login, prepare_acquire_request, prepare_run_parameters.
Misused(command, kind, words) ==
    CASE command = "login" /\ kind = "scoped" -> "ScopedLoginNotAllowed"
      [] command = "run" /\ kind = "app" -> "RunRequiresScoped"
      [] command = "token" /\ kind = "app" /\ words # <<>> -> "AppScopeRejected"
      [] OTHER -> "none"

\* From the arguments to the request.  An app profile stands for all its
\* repositories.
Request(config, arguments, remote) ==
    LET name == ResolveProfileName(arguments.profile, arguments.env, config)
        resolved == ResolveTokenProfile(config, name)
        profile == config.profile[name]
        misused == Misused(arguments.command, profile.kind, arguments.repo)
        selection ==
            IF profile.kind = "app" THEN [Unselected EXCEPT !.all = TRUE]
            ELSE Resolve(Words(arguments.repo, profile.repo),
                         config.profile[resolved.source].account, remote)
    IN  CASE name = Unset -> Refusal("ProfileRequired")
          [] resolved.error # "none" -> Refusal(resolved.error)
          [] misused # "none" -> Refusal(misused)
          [] OTHER -> [error |-> selection.error, profile |-> name,
                       source |-> resolved.source, selection |-> selection]

\* compute_cache_key: SHA-256 of the profile's name and the canonical scope.
CacheKey(request) == <<request.profile, Canonical(request.selection)>>
=============================================================================
