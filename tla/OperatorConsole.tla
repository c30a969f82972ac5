-------------------------- MODULE OperatorConsole --------------------------
(***************************************************************************)
(* What operators switch and set from the console's pages:                 *)
(*   apps/web/src/app/trading/page.tsx, risk/page.tsx, settings/page.tsx   *)
(*   apps/api/src/risk/risk.module.ts       updateConfig, setKillSwitch    *)
(*   apps/api/src/trading/trading.module.ts getStatus                      *)
(*   apps/web/src/app/tokens/page.tsx       the switch and the flag editor *)
(*   apps/api/src/tokens/tokens.module.ts   toggleEnabled, updateFlags     *)
(*   apps/worker/src/index.ts               loadLiveRiskConfig,            *)
(*                                  registerAdapters and loadTargetTokens  *)
(*   apps/worker/src/jobs/execution.job.ts  resolveWallet                  *)
(* A page acts on what it was last told; the API checks less than the      *)
(* schema that every reader parses the parameters with.                    *)
(***************************************************************************)
EXTENDS Integers, FiniteSets

CONSTANTS
  Operator,
  Param,       \* parameters that may be overridden
  Value,       \* values UpdateRiskConfigDto lets through
  Fits,        \* [Param -> SUBSET Value]: those RiskConfigSchema parses
  Default,     \* [Param -> Value]
  WalletKey,   \* the keys an operator may store
  EnvKey,      \* EXECUTION_WALLET_PRIVATE_KEY, or Unset
  FileKey,     \* that of the keystore file, or Unset
  Unset,
  MaxSaves,    \* saves begun; nothing is edited after the last
  ConsoleSettings

\* The kill switches; whether a venue is enabled, and a token; and whether a
\* token has a flag the risk engine refuses.
Switch == {"GLOBAL", "CHAIN", "venue", "token", "flag"}

ASSUME ConsoleAssumption ==
  /\ Unset \notin Value \cup WalletKey /\ Unset \notin Operator \cup Switch /\ MaxSaves \in Nat
  /\ Default \in [Param -> Value]
  /\ \A p \in Param : Default[p] \in Fits[p] /\ Fits[p] \subseteq Value
  /\ ConsoleSettings \subseteq Switch \cup {"params", "nothing"}

VARIABLES
  about,    \* what the operators are at: a switch, or the parameters
  on,       \* each switch
  shown,    \* what each operator's page shows of them
  dialog,   \* the switch a confirmation is open for, and what was asked
  request,  \* each operator's request
  stored,   \* ConfigOverride: the parameters
  key,      \* ConfigOverride's execution_wallet_key
  draft,    \* each page's form, as it was when the page opened, and edited
  acked,    \* whose value of a parameter is the last, and if they were told so
  keyAcked, \* whose key, or removal, is the last, and if they were told so
  live,     \* the worker's parameters, and whether stored has changed since
  signer,   \* the key of the worker's last execution, and whether key has since
  saves,
  switched, \* who set the switch last, to what, and if they were told so
  worker    \* what the worker does by the switch, and whether it was set since

consoleVars ==
  <<about, on, shown, dialog, request, stored, key, draft, acked, keyAcked, live, signer, saves,
    switched, worker>>

NoDialog == [of |-> Unset, asked |-> FALSE]
NoCall == [step |-> "none"]

AllFit == \A p \in Param : stored[p] # Unset => stored[p] \in Fits[p]
Effective == [p \in Param |-> IF stored[p] = Unset THEN Default[p] ELSE stored[p]]

ConsoleInit ==
  /\ about \in ConsoleSettings
  /\ on = [s \in Switch |-> s \in {"venue", "token"}]
  /\ shown = [o \in Operator |-> on]
  /\ dialog = [o \in Operator |-> NoDialog]
  /\ request = [o \in Operator |-> NoCall]
  /\ stored = [p \in Param |-> Unset]
  /\ draft = [o \in Operator |-> Default]
  /\ acked = [p \in Param |-> [by |-> Unset, value |-> Default[p], told |-> FALSE]]
  /\ key = Unset
  /\ keyAcked = [by |-> Unset, value |-> Unset, told |-> FALSE]
  /\ live = [params |-> Default, fresh |-> TRUE]
  /\ signer = [key |-> Unset, fresh |-> TRUE]
  /\ saves = 0
  /\ switched = [by |-> Unset, value |-> FALSE, told |-> FALSE]
  /\ worker = [does |-> "venue", fresh |-> FALSE]

workerVars == <<switched, worker>>
switchVars == <<on, shown, dialog, workerVars>>
keyVars == <<key, keyAcked, signer>>
paramVars == <<stored, draft, acked, live, saves, keyVars>>

-----------------------------------------------------------------------------
(* Switches.                                                               *)

\* The status of the page is polled, or fetched anew after a change.
Poll(o) ==
  /\ about \in Switch
  /\ shown' = [shown EXCEPT ![o] = on]
  /\ UNCHANGED <<about, on, dialog, request, paramVars, workerVars>>

\* handleToggle, setConfirmKey and setConfirming: which way is up to the page.
OpenDialog(o, s) ==
  /\ about = s /\ s \in {"GLOBAL", "venue"} /\ dialog[o] = NoDialog
  /\ dialog' = [dialog EXCEPT ![o] = [of |-> s, asked |-> ~shown[o][s]]]
  /\ UNCHANGED <<about, on, shown, request, paramVars, workerVars>>

\* FlagEditor takes the token's flags once, and is saved with this one ticked
\* or not.
EditFlags(o, ticked) ==
  /\ about = "flag" /\ dialog[o] = NoDialog
  /\ dialog' = [dialog EXCEPT ![o] = [of |-> "flag", asked |-> ticked]]
  /\ UNCHANGED <<about, on, shown, request, paramVars, workerVars>>

Cancel(o) ==
  /\ dialog[o] # NoDialog
  /\ dialog' = [dialog EXCEPT ![o] = NoDialog]
  /\ UNCHANGED <<about, on, shown, request, paramVars, workerVars>>

\* The answer to a dialog goes out as a request.
Confirmed(o, value) ==
  /\ request[o] = NoCall
  /\ request' = [request EXCEPT ![o] =
       [step |-> "write", of |-> dialog[o].of, value |-> value, asked |-> dialog[o].asked]]
  /\ dialog' = [dialog EXCEPT ![o] = NoDialog]
  /\ UNCHANGED <<about, on, shown, paramVars, workerVars>>

\* Mutant: the way of the switch is that of what is shown at the confirmation.
ConfirmFlips(o) ==
  /\ dialog[o].of \in {"GLOBAL", "flag"}
  /\ Confirmed(o, ~shown[o][dialog[o].of])

\* executeToggle, the risk page's button and the flag editor send what the
\* dialog was opened for.
Confirm(o) ==
  /\ dialog[o].of \in {"GLOBAL", "flag"}
  /\ Confirmed(o, dialog[o].asked)

\* VenueRow: "Yes" sends the opposite of what the page shows by now.
ConfirmVenue(o) ==
  /\ dialog[o].of = "venue"
  /\ Confirmed(o, ~shown[o]["venue"])

\* The risk page asks nothing for a chain, nor to release GLOBAL; nor does the
\* page of the tokens.
ClickAtOnce(o, s) ==
  /\ about = s /\ dialog[o] = NoDialog /\ request[o] = NoCall
  /\ s \in {"CHAIN", "token"} \/ (s = "GLOBAL" /\ shown[o][s])
  /\ request' = [request EXCEPT ![o] =
       [step |-> "write", of |-> s, value |-> ~shown[o][s], asked |-> ~shown[o][s]]]
  /\ UNCHANGED <<about, switchVars, paramVars>>

\* Redis or the row is written first, then the audit log, which may fail.
Written(o) ==
  /\ on' = [on EXCEPT ![request[o].of] = request[o].value]
  /\ switched' = [by |-> o, value |-> request[o].value, told |-> FALSE]
  /\ worker' = [worker EXCEPT !.fresh = FALSE]
  /\ request' = [request EXCEPT ![o].step = "audit"]
  /\ UNCHANGED <<about, shown, dialog, paramVars>>

\* setKillSwitch and VenuesService.update.
WriteSwitch(o) ==
  /\ request[o].step = "write" /\ request[o].of \notin {"token", "flag"}
  /\ Written(o)

\* toggleEnabled and updateFlags, of a token that is there.
UpdateToken(o) ==
  /\ request[o].step = "write" /\ request[o].of \in {"token", "flag"}
  /\ Written(o)

SwitchAnswered(o, ok) ==
  /\ request[o].step = "audit" \/ (request[o].step = "write" /\ ~ok)
  /\ switched' = IF ok /\ switched.by = o THEN [switched EXCEPT !.told = TRUE] ELSE switched
  /\ request' = [request EXCEPT ![o] = NoCall]
  /\ UNCHANGED <<about, on, shown, dialog, worker, paramVars>>

\* The risk engine's own: too many failed transactions.
AutoKilled ==
  /\ about = "GLOBAL" /\ ~on["GLOBAL"]
  /\ on' = [on EXCEPT !["GLOBAL"] = TRUE]
  /\ switched' = [by |-> Unset, value |-> TRUE, told |-> FALSE]
  /\ UNCHANGED <<about, shown, dialog, request, worker, paramVars>>

-----------------------------------------------------------------------------
(* What the worker makes of the switches: the kill switches it asks Redis  *)
(* for, each time (RiskEngine and OpportunityPipeline model that).         *)

WorkerSees(does) ==
  /\ worker' = [does |-> does, fresh |-> TRUE]
  /\ UNCHANGED <<about, on, shown, dialog, switched, request, paramVars>>

\* registerAdapters, when the worker starts and never after: no venue enabled
\* means mocks, but in production none.
RegisterAdapters(production) ==
  /\ about = "venue"
  /\ WorkerSees(IF on["venue"] THEN "venue" ELSE IF production THEN "none" ELSE "mocks")

\* loadTargetTokens, at each refresh: a token that is tracked, enabled or not,
\* or one of the base pairs that is enabled.
LoadTargetTokens(tracked) ==
  /\ about = "token"
  /\ WorkerSees(IF tracked THEN "tracked" ELSE IF on["token"] THEN "target" ELSE "none")

\* checkTokenFlags, at each evaluation.
CheckTokenFlags ==
  /\ about = "flag"
  /\ WorkerSees(IF on["flag"] THEN "refuses" ELSE "trades")

-----------------------------------------------------------------------------
(* Parameters.                                                             *)

\* The page opens with the parameters of now, which getStatus cannot answer
\* with while any of them does not parse; useState takes them once.
OpenForm(o) ==
  /\ about = "params" /\ AllFit /\ saves < MaxSaves
  /\ draft' = [draft EXCEPT ![o] = Effective]
  /\ UNCHANGED <<about, switchVars, request, stored, acked, live, saves, keyVars>>

EditForm(o, p, v) ==
  /\ about = "params" /\ v \in Value /\ saves < MaxSaves
  /\ draft' = [draft EXCEPT ![o][p] = v]
  /\ UNCHANGED <<about, switchVars, request, stored, acked, live, saves, keyVars>>

\* The whole draft is sent, edited or not, but for fields that are empty; the
\* button waits for the answer.
Save(o, filled) ==
  /\ about = "params" /\ request[o] = NoCall /\ saves < MaxSaves
  /\ saves' = saves + 1
  /\ request' = [request EXCEPT ![o] =
       [step |-> "current", values |-> draft[o],
        todo |-> filled, before |-> Default]]
  /\ UNCHANGED <<about, switchVars, stored, draft, acked, live, keyVars>>

\* updateConfig begins with getConfig, which throws what the schema does; rows
\* that are no parameters, an encrypted key among them, are JSON it strips.
Current(o) ==
  /\ request[o].step = "current"
  /\ request' = [request EXCEPT ![o] =
       IF AllFit THEN [@ EXCEPT !.step = "upsert", !.before = Effective] ELSE NoCall]
  /\ UNCHANGED <<about, switchVars, paramVars>>

\* Mutant: what equals the configuration read before is not written.
UpsertsChanges(o, p) ==
  /\ request[o].step = "upsert" /\ p \in request[o].todo
  /\ stored' = IF request[o].values[p] = request[o].before[p] THEN stored
               ELSE [stored EXCEPT ![p] = request[o].values[p]]
  /\ acked' = [acked EXCEPT ![p] = [by |-> o, value |-> request[o].values[p], told |-> FALSE]]
  /\ live' = [live EXCEPT !.fresh = FALSE]
  /\ request' = [request EXCEPT ![o].todo = @ \ {p}]
  /\ UNCHANGED <<about, switchVars, draft, saves, keyVars>>

\* One upsert per key, each a transaction of its own.
Upsert(o, p) ==
  /\ request[o].step = "upsert" /\ p \in request[o].todo
  /\ stored' = [stored EXCEPT ![p] = request[o].values[p]]
  /\ acked' = [acked EXCEPT ![p] = [by |-> o, value |-> request[o].values[p], told |-> FALSE]]
  /\ live' = [live EXCEPT !.fresh = FALSE]
  /\ request' = [request EXCEPT ![o].todo = @ \ {p}]
  /\ UNCHANGED <<about, switchVars, draft, saves, keyVars>>

\* The audit row, and the configuration to answer with, if it parses.
Saved(o) ==
  /\ request[o].step = "upsert" /\ request[o].todo = {}
  /\ acked' = [p \in Param |->
       IF AllFit /\ acked[p].by = o THEN [acked[p] EXCEPT !.told = TRUE] ELSE acked[p]]
  /\ request' = [request EXCEPT ![o] = NoCall]
  /\ UNCHANGED <<about, switchVars, stored, draft, live, saves, keyVars>>

\* The API dies or the database fails between two writes.
SaveFails(o) ==
  /\ request[o].step \in {"current", "upsert"}
  /\ request' = [request EXCEPT ![o] = NoCall]
  /\ UNCHANGED <<about, switchVars, paramVars>>

\* loadLiveRiskConfig, before each scan and job: the defaults, all of them,
\* when one override does not parse.
LoadLive ==
  /\ about = "params"
  /\ live' = [params |-> IF AllFit THEN Effective ELSE Default, fresh |-> TRUE]
  /\ UNCHANGED <<about, switchVars, request, stored, draft, acked, saves, keyVars>>

-----------------------------------------------------------------------------
(* The execution wallet.                                                   *)

\* setWallet and removeWallet: the row first, then the audit log.
ChangeKey(o, k) ==
  /\ about = "params" /\ request[o] = NoCall /\ saves < MaxSaves
  /\ saves' = saves + 1
  /\ request' = [request EXCEPT ![o] = [step |-> "key", value |-> k]]
  /\ UNCHANGED <<about, switchVars, stored, draft, acked, live, keyVars>>

WriteKey(o) ==
  /\ request[o].step = "key"
  /\ key' = request[o].value
  /\ keyAcked' = [by |-> o, value |-> request[o].value, told |-> FALSE]
  /\ signer' = [signer EXCEPT !.fresh = FALSE]
  /\ request' = [request EXCEPT ![o].step = "key audit"]
  /\ UNCHANGED <<about, switchVars, stored, draft, acked, live, saves>>

KeyChanged(o, ok) ==
  /\ request[o].step = "key audit"
  /\ keyAcked' = IF ok /\ keyAcked.by = o THEN [keyAcked EXCEPT !.told = TRUE] ELSE keyAcked
  /\ request' = [request EXCEPT ![o] = NoCall]
  /\ UNCHANGED <<about, switchVars, stored, draft, acked, live, saves, key, signer>>

\* resolveWallet, at the start of each execution; without a key it throws.
ResolveWallet ==
  /\ about = "params"
  /\ signer' = [key |-> IF EnvKey # Unset THEN EnvKey ELSE IF key # Unset THEN key ELSE FileKey,
                fresh |-> TRUE]
  /\ UNCHANGED <<about, switchVars, request, stored, draft, acked, live, saves, key, keyAcked>>

ConsoleNext ==
  \/ \E o \in Operator :
       \/ Poll(o) \/ Cancel(o) \/ Confirm(o) \/ ConfirmVenue(o)
       \/ WriteSwitch(o) \/ UpdateToken(o)
       \/ \E ok \in BOOLEAN : EditFlags(o, ok) \/ SwitchAnswered(o, ok)
       \/ \E s \in Switch : OpenDialog(o, s) \/ ClickAtOnce(o, s)
       \/ OpenForm(o) \/ Current(o) \/ Saved(o) \/ SaveFails(o)
       \/ \E p \in Param : Upsert(o, p) \/ \E v \in Value : EditForm(o, p, v)
       \/ \E filled \in SUBSET Param : Save(o, filled)
       \/ \E k \in WalletKey \cup {Unset} : ChangeKey(o, k)
       \/ WriteKey(o) \/ \E ok \in BOOLEAN : KeyChanged(o, ok)
  \/ AutoKilled
  \/ \E b \in BOOLEAN : RegisterAdapters(b) \/ LoadTargetTokens(b)
  \/ CheckTokenFlags
  \/ LoadLive
  \/ ResolveWallet

ConsoleSpec == ConsoleInit /\ [][ConsoleNext]_consoleVars

-----------------------------------------------------------------------------
(* Properties.                                                             *)

\* A kill switch is released only by an operator who was shown it engaged and
\* asked for its release: never by one whose dialog was about engaging it when
\* it was engaged by another, or by the risk engine.  Not so a venue's switch.
ReleasedOnPurpose ==
  [][\A s \in {"GLOBAL", "CHAIN"} :
       on[s] /\ ~on'[s] =>
         \E o \in Operator : request[o].step = "write" /\ request[o].of = s /\ ~request[o].asked]_on

\* "Changes take effect on the next scan cycle" (trading/page.tsx:410): once
\* the worker has loaded its parameters it uses those an operator was told are
\* saved, while every stored value parses; and an execution signs with the key
\* an operator was told is set, or with none of theirs after a removal, unless
\* the environment names one.  So for a token at the next refresh, unless it is
\* tracked, and for its flags at the next evaluation.  Nothing is claimed of a
\* venue's switch: settings/page.tsx:326 promises it for the next poll cycle,
\* and no adapter is registered or dropped while the worker runs.
SavedTakesEffect ==
  /\ about # "venue" /\ worker.fresh /\ switched.told /\ worker.does # "tracked" =>
       (worker.does \in {"target", "refuses"} <=> switched.value)
  /\ live.fresh /\ AllFit =>
       \A p \in Param : acked[p].told => live.params[p] = acked[p].value
  /\ signer.fresh /\ keyAcked.told =>
       signer.key = IF EnvKey # Unset THEN EnvKey
                    ELSE IF keyAcked.value # Unset THEN keyAcked.value ELSE FileKey

=============================================================================
