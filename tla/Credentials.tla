---------------------------- MODULE Credentials ----------------------------
(***************************************************************************)
(* The sealed credentials of one user: the rows a user stores, rotates and *)
(* deletes (AI provider keys, GitHub PAT, Jira token), the audit log, the  *)
(* master key they are sealed with, the secrets bundles that are unsealed  *)
(* into a directory for a worker, and `takuto keys reset`, a process of    *)
(* its own.  A request that validates a token upstream reads the database  *)
(* before and writes it after; a bundle is built by several reads; the     *)
(* server and the reset may die between any two steps.                     *)
(***************************************************************************)
EXTENDS Integers, FiniteSets

CONSTANTS
    Secrets,    \* Jira tokens a user may store
    Sites,      \* Jira sites
    Nothing,    \* no secret, no site
    Pasted,     \* a key, a session blob or a PAT: no property tells two apart
    Posts,      \* requests that can be in flight at once
    Builds,     \* bundles that can exist at once
    App,        \* BOOLEAN, a GitHub App is configured
    MaxKey,     \* bound on the master keys ever generated
    MaxWrites   \* bound on the rows ever written

ASSUME CredentialsAssumption ==
    /\ Nothing \notin Secrets \cup Sites \cup {Pasted} /\ App \in BOOLEAN
    /\ IsFiniteSet(Posts) /\ IsFiniteSet(Builds)
    /\ MaxKey \in Nat \ {0} /\ MaxWrites \in Nat

VARIABLES
    stored,     \* [RowKinds -> Row], the rows of the three credential tables
    audit,      \* [Tokens -> Event], the last event of credential_audit that is "ok"
    env,        \* BOOLEAN, TAKUTO_SECRET_KEY is set
    autoGen,    \* BOOLEAN, allow_auto_generate_secret_key
    keyfile,    \* secret.key: NoFile, Partial, or the number of a key
    server,     \* [up, key], key 0 is degraded mode
    keyMaker,   \* who is between create_new and write_all of secret.key
    reset,      \* the step of `keys reset`
    post,       \* [Posts -> Post]
    build,      \* [Builds -> Build]
    dirs,       \* SUBSET Builds, the directories under the secrets root
    keysMade, writes,   \* counters of the bounds
    accepted,   \* ghost: the <<site, token>> pairs Jira accepted
    skew,       \* ghost: a server ran between the two halves of a reset
    unswept     \* ghost: directories the sweep failed to remove

credVars == <<stored, audit, env, autoGen, keyfile, server, keyMaker, reset, post, build, dirs,
              keysMade, writes, accepted, skew, unswept>>

AiKinds == {"api_key", "cli_state"}
Tokens == {"github", "jira"}
RowKinds == AiKinds \cup Tokens
NoFile == 0
Partial == -1

Row == [val : Secrets \cup {Nothing, Pasted}, site : Sites \cup {Nothing}, key : Nat]
Absent == [val |-> Nothing, site |-> Nothing, key |-> 0]
Event == {"none", "created", "rotated", "deleted"}
Post == [pc : {"idle", "validate", "write"}, kind : Tokens, val : Secrets \cup {Nothing, Pasted},
         site : Sites \cup {Nothing}, present : BOOLEAN]
NoPost == [pc |-> "idle", kind |-> "github", val |-> Nothing, site |-> Nothing,
           present |-> FALSE]
BuildPc == {"idle", "provider", "session", "mode", "unseal", "author", "ready"}
Present(k) == stored[k] # Absent

CredInit ==
    /\ stored = [k \in RowKinds |-> Absent] /\ audit = [k \in Tokens |-> "none"]
    /\ env \in BOOLEAN /\ autoGen \in BOOLEAN
    /\ keyfile = NoFile /\ server = [up |-> FALSE, key |-> 0] /\ keyMaker = "nobody"
    /\ reset = "idle" /\ post = [r \in Posts |-> NoPost]
    /\ build = [b \in Builds |-> "idle"] /\ dirs = {}
    /\ keysMade = 1 /\ writes = 0 /\ accepted = {} /\ skew = FALSE /\ unswept = {}

----------------------------------------------------------------------------
(* The process of the server and its master key.                            *)

(* open: a blob opens with the key it was sealed with, and no other.       *)
Opens(k) == stored[k].key = server.key

(* Mutant of Boot: the start does not sweep.                               *)
BootUnswept(key) ==
    /\ server' = [up |-> TRUE, key |-> key] /\ skew' = (skew \/ reset = "cleared")
    /\ UNCHANGED <<dirs, unswept>>

(* The server is up once the key is loaded and the directories an earlier  *)
(* process left are removed; one that cannot be removed stays.             *)
Boot(key) ==
    /\ server' = [up |-> TRUE, key |-> key] /\ skew' = (skew \/ reset = "cleared")
    /\ \E left \in SUBSET dirs : dirs' = left /\ unswept' = left

(* load_or_init_master_key: the environment, the file (a short one is an   *)
(* error), or a new file; the server runs without a key when all fail.     *)
ServerStart ==
    /\ ~server.up /\ keyMaker # "server"
    /\ \/ env /\ Boot(1) /\ UNCHANGED <<keyfile, keyMaker>>
       \/ ~env /\ keyfile # NoFile /\ Boot(IF keyfile = Partial THEN 0 ELSE keyfile)
             /\ UNCHANGED <<keyfile, keyMaker>>
       \/ ~env /\ keyfile = NoFile /\ ~autoGen /\ Boot(0) /\ UNCHANGED <<keyfile, keyMaker>>
       \/ ~env /\ keyfile = NoFile /\ autoGen /\ keysMade < MaxKey
             /\ keyfile' = Partial /\ keyMaker' = "server"
             /\ UNCHANGED <<server, dirs, unswept, skew>>
    /\ UNCHANGED <<stored, audit, env, autoGen, reset, post, build, keysMade, writes, accepted>>

(* write_all: the key is in the file; its maker goes on.                   *)
WriteKeyfile ==
    /\ keyMaker # "nobody" /\ keyMaker' = "nobody"
    /\ keysMade' = keysMade + 1 /\ keyfile' = keysMade + 1
    /\ IF keyMaker = "server" THEN Boot(keysMade + 1) /\ UNCHANGED reset
       ELSE reset' = "idle" /\ UNCHANGED <<server, dirs, unswept, skew>>
    /\ UNCHANGED <<stored, audit, env, autoGen, post, build, writes, accepted>>

(* The process ends: killed, it leaves its directories behind; stopped, it *)
(* drops its bundles.                                                      *)
Ended ==
    /\ server' = [up |-> FALSE, key |-> 0]
    /\ post' = [r \in Posts |-> NoPost] /\ build' = [b \in Builds |-> "idle"]
    /\ keyMaker' = IF keyMaker = "server" THEN "nobody" ELSE keyMaker
    /\ UNCHANGED <<stored, audit, env, autoGen, keyfile, reset, keysMade, writes, accepted, skew,
                   unswept>>
Killed == (server.up \/ keyMaker = "server") /\ Ended /\ UNCHANGED dirs
Stopped == server.up /\ Ended /\ dirs' = {b \in dirs : build[b] = "idle"}

----------------------------------------------------------------------------
(* Requests on the credentials.  A write needs the master key (503).        *)

CanSeal == server.up /\ server.key # 0 /\ writes < MaxWrites
(* Mutant of Sealed: the blob goes into the row without being sealed.      *)
SealedNot(v, s) == [val |-> v, site |-> s]

Sealed(v, s) == [val |-> v, site |-> s, key |-> server.key]
RestUnchanged == UNCHANGED <<env, autoGen, keyfile, server, keyMaker, reset, build, dirs,
                             keysMade, skew, unswept>>

(* post_provider_credential: one transaction reads, writes and logs.       *)
PostProvider(k) ==
    /\ CanSeal /\ stored' = [stored EXCEPT ![k] = Sealed(Pasted, Nothing)]
    /\ writes' = writes + 1
    /\ UNCHANGED <<audit, post, accepted>> /\ RestUnchanged

(* delete_provider_credential: the rows of one kind, or of all.            *)
DeleteProvider(ks) ==
    /\ server.up /\ \E k \in ks : Present(k)
    /\ stored' = [k \in RowKinds |-> IF k \in ks THEN Absent ELSE stored[k]]
    /\ UNCHANGED <<audit, post, writes, accepted>> /\ RestUnchanged

(* post_github_pat up to the call of GitHub.                               *)
GithubBegin(r) ==
    /\ CanSeal /\ post[r].pc = "idle"
    /\ post' = [post EXCEPT ![r] = [NoPost EXCEPT !.pc = "validate", !.val = Pasted]]
    /\ UNCHANGED <<stored, audit, writes, accepted>> /\ RestUnchanged

(* post_jira_credential up to the call of Jira: a token in the request, or *)
(* the stored one when it can be opened (resolve_rest_credential).         *)
JiraBegin(r, s, v) ==
    /\ CanSeal /\ post[r].pc = "idle"
    /\ v = Nothing => Present("jira") /\ Opens("jira")
    /\ post' = [post EXCEPT ![r] = [pc |-> "validate", kind |-> "jira", site |-> s,
                                     val |-> IF v = Nothing THEN stored["jira"].val ELSE v,
                                     present |-> FALSE]]
    /\ UNCHANGED <<stored, audit, writes, accepted>> /\ RestUnchanged

(* What the upstream check of a token comes to: validate_pat, and validate *)
(* for Jira.                                                               *)
PatOutcomes == {"ok", "invalid_pat", "insufficient_scopes", "sso_authorization_required",
                "gh_transport_error"}
JiraOutcomes == {"ok", "invalid_token", "unauthorized", "jira_transport_error"}

(* Refused, or out of reach: an "error" event and 400 or 502.              *)
Refused(r) ==
    /\ post[r].pc = "validate"
    /\ \E o \in IF post[r].kind = "github" THEN PatOutcomes ELSE JiraOutcomes : o # "ok"
    /\ post' = [post EXCEPT ![r] = NoPost]
    /\ UNCHANGED <<stored, audit, writes, accepted>> /\ RestUnchanged

(* Accepted; find tells whether the write will be a rotation.              *)
Accepted(r) ==
    LET k == post[r].kind
    IN  /\ post[r].pc = "validate"
        /\ post' = [post EXCEPT ![r].pc = "write", ![r].present = Present(k)]
        /\ accepted' = IF k = "jira" THEN accepted \cup {<<post[r].site, post[r].val>>}
                       ELSE accepted
        /\ UNCHANGED <<stored, audit, writes>> /\ RestUnchanged

(* Mutant of SealedPost: the token column of a row that is there is kept.  *)
SealedPostKeep(r) ==
    IF post[r].present /\ Present(post[r].kind)
    THEN [stored[post[r].kind] EXCEPT !.site = post[r].site] ELSE Sealed(post[r].val, post[r].site)

(* The transaction that upserts the row, touches it and logs the event.    *)
SealedPost(r) == Sealed(post[r].val, post[r].site)
PostWrite(r) ==
    LET k == post[r].kind
    IN  /\ post[r].pc = "write" /\ writes < MaxWrites /\ writes' = writes + 1
        /\ post' = [post EXCEPT ![r] = NoPost]
        /\ stored' = [stored EXCEPT ![k] = SealedPost(r)]
        /\ audit' = [audit EXCEPT ![k] = IF post[r].present THEN "rotated" ELSE "created"]
        /\ UNCHANGED accepted /\ RestUnchanged

GithubWrite(r) == post[r].kind = "github" /\ PostWrite(r)
JiraWrite(r) == post[r].kind = "jira" /\ PostWrite(r)

DeleteToken(k) ==
    /\ server.up /\ Present(k)
    /\ stored' = [stored EXCEPT ![k] = Absent] /\ audit' = [audit EXCEPT ![k] = "deleted"]
    /\ UNCHANGED <<post, writes, accepted>> /\ RestUnchanged

DeleteGithubPat == DeleteToken("github")
DeleteJiraCredential == DeleteToken("jira")

(* Mutant of PatchAttribution: the event is logged whether or not a row    *)
(* was updated.                                                            *)
PatchUnchecked ==
    /\ server.up /\ audit' = [audit EXCEPT !["github"] = "rotated"]
    /\ UNCHANGED <<stored, post, writes, accepted>> /\ RestUnchanged

(* patch_github_attribution changes a flag of the row, and logs it.        *)
PatchAttribution ==
    /\ server.up /\ Present("github") /\ audit' = [audit EXCEPT !["github"] = "rotated"]
    /\ UNCHANGED <<stored, post, writes, accepted>> /\ RestUnchanged

----------------------------------------------------------------------------
(* A bundle is built: build.  An error drops the directory, and the caller *)
(* goes on without a bundle.                                               *)

BuildTo(b, pc) ==
    /\ build' = [build EXCEPT ![b] = pc]
    /\ dirs' = IF pc = "idle" THEN dirs \ {b} ELSE dirs \cup {b}
    /\ UNCHANGED <<stored, audit, env, autoGen, keyfile, server, keyMaker, reset, post,
                   keysMade, writes, accepted, skew, unswept>>

BuildBegin(b) ==
    /\ server.up /\ server.key # 0 /\ build[b] = "idle" /\ b \notin dirs
    /\ BuildTo(b, "provider")

(* unseal_provider_credential: without a row, the deployment's default     *)
(* serves where allow_shared_default says so.                              *)
ReadProvider(b) ==
    /\ build[b] = "provider"
    /\ IF Present("api_key") THEN BuildTo(b, IF Opens("api_key") THEN "session" ELSE "idle")
       ELSE \E allow \in BOOLEAN : BuildTo(b, IF allow THEN "session" ELSE "idle")

(* unseal_claude_session.                                                  *)
ReadSession(b) ==
    /\ build[b] = "session"
    /\ BuildTo(b, IF Present("cli_state") /\ ~Opens("cli_state") THEN "idle" ELSE "mode")

(* mode_for_user, and decide_token_source: the App reads for everyone, but *)
(* what a user writes is attributed to the PAT when there is one.          *)
AuthMode == IF Present("github") THEN IF App THEN "app_plus_pat" ELSE "pat_only"
            ELSE IF App THEN "app_only" ELSE "missing"
DecideTokenSource(action, mode) ==
    IF mode = "missing" THEN "none"
    ELSE IF mode = "app_only" \/ (mode = "app_plus_pat" /\ action \in {"clone", "fetch", "webhook"})
    THEN "app" ELSE "user_pat"
(* token_for(Push): the App may fail to give a token.                      *)
ReadMode(b) ==
    /\ build[b] = "mode"
    /\ LET source == DecideTokenSource("push", AuthMode)
       IN  \/ source = "user_pat" /\ BuildTo(b, "unseal")
           \/ source # "user_pat" /\ BuildTo(b, "ready")
           \/ source = "app" /\ BuildTo(b, "idle")

(* unseal_user_pat: a row that has gone meanwhile is no token.             *)
Unseal(b) ==
    /\ build[b] = "unseal"
    /\ BuildTo(b, IF ~Present("github") THEN "ready"
                  ELSE IF Opens("github") THEN "author" ELSE "idle")

(* materialise_user_pat reads the row again for the author's name.         *)
ReadAuthor(b) == build[b] = "author" /\ BuildTo(b, "ready")

(* The last handle of the bundle is dropped with the worker.               *)
Release(b) == build[b] = "ready" /\ BuildTo(b, "idle")

----------------------------------------------------------------------------
(* takuto keys reset.  It refuses to run while the snapshots show an       *)
(* active work item, which does not keep it from an idle server.           *)

(* Mutant of Cleared: the GitHub table is forgotten.                       *)
ClearedAi == AiKinds

(* clear_credential_tables: one transaction; user_jira_credentials is not  *)
(* one of its tables.                                                      *)
Cleared == AiKinds \cup {"github"}
ResetClear ==
    /\ reset = "idle" /\ keyMaker # "reset" /\ reset' = IF env THEN "idle" ELSE "cleared"
    /\ stored' = [k \in RowKinds |-> IF k \in Cleared THEN Absent ELSE stored[k]]
    /\ audit' = [k \in Tokens |-> "none"]
    /\ skew' = server.up
    /\ UNCHANGED <<env, autoGen, keyfile, server, keyMaker, post, build, dirs, keysMade, writes,
                   accepted, unswept>>

ResetRest == UNCHANGED <<stored, audit, env, autoGen, server, post, build, dirs, keysMade, writes,
                         accepted, unswept>>
(* remove_file, then load_or_init_master_key, which fails where a key may  *)
(* not be generated and loads the file when a server has made one.  That   *)
(* the file goes between the create and the write of a starting server is  *)
(* left out.                                                               *)
ResetRemove ==
    /\ reset = "cleared" /\ keyMaker # "server"
    /\ keyfile' = NoFile /\ reset' = "removed"
    /\ ResetRest /\ UNCHANGED <<keyMaker, skew>>
ResetGenerate ==
    /\ reset = "removed" /\ keyMaker # "reset" /\ UNCHANGED skew /\ ResetRest
    /\ IF keyfile = NoFile /\ autoGen
       THEN keysMade < MaxKey /\ keyfile' = Partial /\ keyMaker' = "reset" /\ UNCHANGED reset
       ELSE reset' = "idle" /\ UNCHANGED <<keyfile, keyMaker>>
ResetKilled ==
    /\ reset # "idle" /\ reset' = "idle"
    /\ keyMaker' = IF keyMaker = "reset" THEN "nobody" ELSE keyMaker
    /\ UNCHANGED <<keyfile, skew>> /\ ResetRest

CredNext ==
    \/ ServerStart \/ WriteKeyfile \/ Killed \/ Stopped
    \/ \E k \in AiKinds : PostProvider(k)
    \/ \E ks \in SUBSET AiKinds \ {{}} : DeleteProvider(ks)
    \/ \E r \in Posts :
          \/ Refused(r) \/ Accepted(r) \/ GithubWrite(r) \/ JiraWrite(r) \/ GithubBegin(r)
          \/ \E s \in Sites, v \in Secrets \cup {Nothing} : JiraBegin(r, s, v)
    \/ DeleteGithubPat \/ DeleteJiraCredential \/ PatchAttribution
    \/ \E b \in Builds : BuildBegin(b) \/ ReadProvider(b) \/ ReadSession(b) \/ ReadMode(b)
                            \/ Unseal(b) \/ ReadAuthor(b) \/ Release(b)
    \/ ResetClear \/ ResetRemove \/ ResetGenerate \/ ResetKilled

CredSpec == CredInit /\ [][CredNext]_credVars

----------------------------------------------------------------------------
CredTypeOK ==
    /\ stored \in [RowKinds -> Row] /\ audit \in [Tokens -> Event]
    /\ env \in BOOLEAN /\ autoGen \in BOOLEAN /\ keyfile \in {NoFile, Partial} \cup 1 .. MaxKey
    /\ server \in [up : BOOLEAN, key : 0 .. MaxKey] /\ keyMaker \in {"nobody", "server", "reset"}
    /\ reset \in {"idle", "cleared", "removed"} /\ post \in [Posts -> Post]
    /\ build \in [Builds -> BuildPc] /\ dirs \subseteq Builds /\ unswept \subseteq Builds
    /\ keysMade \in 1 .. MaxKey /\ writes \in 0 .. MaxWrites
    /\ accepted \subseteq Sites \X Secrets /\ skew \in BOOLEAN

(* The audit log tells the truth about the tokens: after a created or a    *)
(* rotated event the row is there, after a deleted event it is not, with   *)
(* requests on the same row in flight and the process killed at any step.  *)
AuditTellsRow ==
    \A k \in Tokens : /\ audit[k] \in {"created", "rotated"} => Present(k)
                      /\ audit[k] = "deleted" => ~Present(k)

(* A Jira row holds a site and a token that Jira accepted together, though *)
(* a request that keeps the stored token races one that replaces it.       *)
JiraPairValidated ==
    Present("jira") => <<stored["jira"].site, stored["jira"].val>> \in accepted

(* Whatever step of a reset or of the start the process died in, the AI    *)
(* and GitHub rows open with the key the next server will load, unless a   *)
(* server ran while the reset was between the rows and the key.            *)
CurrentKey == IF env THEN 1 ELSE keyfile
RowsOpen ==
    ~skew => \A k \in AiKinds \cup {"github"} : Present(k) => stored[k].key = CurrentKey

(* While the server is up, every directory of secrets on the disk is that  *)
(* of a bundle in use, but for the ones the sweep could not remove.        *)
SecretsSwept == server.up => dirs \subseteq {b \in Builds : build[b] # "idle"} \cup unswept

(* The credentials, as one invariant: the audit log is true, a Jira site   *)
(* and token were accepted together, rows can be opened and no directory   *)
(* of secrets is left behind.                                              *)
CredentialsSafe ==
    CredTypeOK /\ AuditTellsRow /\ JiraPairValidated /\ RowsOpen /\ SecretsSwept

(* The statement of keys.rs about every credential: after a reset no row   *)
(* is left that the new key does not open.                                 *)
EveryRowOpens ==
    ~skew /\ reset = "idle" /\ keyfile > 0
        => \A k \in RowKinds : Present(k) => stored[k].key = CurrentKey

=============================================================================
