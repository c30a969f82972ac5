---------------------------- MODULE ConsoleProofs ----------------------------
(* What the console promises for every set of operators, parameters, tokens  *)
(* and pools, and for every limit: OperatorConsole's switches and            *)
(* parameters, PriceService's ages, what the desks tell of pools and of      *)
(* liquidity, and the login's limiter.                                       *)
EXTENDS PriceService, PoolDesk, LiquidityDesk, OperatorConsole, LoginLimiter,
        FiniteSetTheorems, TLAPS

-----------------------------------------------------------------------------
(* Switches and parameters                                                  *)

\* A request about a switch is about the one the operators are at; where no
\* dialog may turn it over meanwhile it writes what was asked.
Requests ==
  /\ about \in Switch \cup {"params", "nothing"}
  /\ DOMAIN request = Operator /\ DOMAIN dialog = Operator
  /\ \A o \in Operator :
       /\ dialog[o] = NoDialog \/ (about \in Switch /\ dialog[o].of = about)
       /\ "step" \in DOMAIN request[o]
       /\ request[o].step = "write" =>
            /\ about \in Switch /\ request[o].of = about
            /\ {"of", "value", "asked"} \subseteq DOMAIN request[o]
            /\ about \in {"GLOBAL", "CHAIN"} => request[o].value = request[o].asked
       /\ request[o].step = "audit" => about \in Switch
       /\ request[o].step \in {"current", "upsert"} =>
            /\ DOMAIN request[o] = {"step", "values", "todo", "before"}
            /\ request[o].values \in [Param -> Value] /\ request[o].todo \subseteq Param
       /\ request[o].step = "key" => request[o].value \in WalletKey \cup {Unset}

\* Who set the switch last set it to what it is, and what the worker saw of it
\* since the last change it still is.
Switches ==
  /\ DOMAIN on = Switch
  /\ DOMAIN switched = {"by", "value", "told"} /\ DOMAIN worker = {"does", "fresh"}
  /\ switched.by \in Operator => about \in Switch /\ on[about] = switched.value
  /\ switched.told => switched.by \in Operator
  /\ worker.fresh =>
       /\ about \in {"venue", "token", "flag"}
       /\ about # "venue" =>
            \/ worker.does = "tracked"
            \/ worker.does \in {"target", "refuses"} /\ on[about]
            \/ worker.does \notin {"target", "refuses"} /\ ~on[about]

\* So for each parameter, and for the key of the wallet.
Parameters ==
  /\ stored \in [Param -> Value \cup {Unset}]
  /\ draft \in [Operator -> [Param -> Value]]
  /\ DOMAIN acked = Param
  /\ \A p \in Param :
       /\ DOMAIN acked[p] = {"by", "value", "told"}
       /\ acked[p].by \in Operator => stored[p] = acked[p].value /\ acked[p].value \in Value
       /\ acked[p].told => acked[p].by \in Operator
  /\ DOMAIN live = {"params", "fresh"}
  /\ live.fresh => live.params = IF AllFit THEN Effective ELSE Default

Signing ==
  /\ DOMAIN keyAcked = {"by", "value", "told"} /\ DOMAIN signer = {"key", "fresh"}
  /\ keyAcked.by \in Operator => key = keyAcked.value
  /\ keyAcked.told => keyAcked.by \in Operator
  /\ signer.fresh /\ keyAcked.by \in Operator =>
       signer.key = IF EnvKey # Unset THEN EnvKey ELSE IF key # Unset THEN key ELSE FileKey

ConsoleInv == Requests /\ Switches /\ Parameters /\ Signing

\* A step about parameters or keys leaves the switches alone, and the other way
\* round.
LEMMA SwitchesKept ==
  ASSUME Switches, UNCHANGED <<about, on, switched, worker>>
  PROVE  Switches'
BY DEF Switches

LEMMA ParametersKept ==
  ASSUME Parameters, UNCHANGED <<stored, draft, acked, live>>
  PROVE  Parameters'
BY DEF Parameters, AllFit, Effective

LEMMA SigningKept ==
  ASSUME Signing, UNCHANGED keyVars
  PROVE  Signing'
BY DEF Signing, keyVars

\* One operator's request, or dialog, changes.
LEMMA RequestsKept ==
  ASSUME Requests, UNCHANGED about, NEW o \in Operator,
         DOMAIN request' = Operator, DOMAIN dialog' = Operator,
         \A q \in Operator \ {o} : request'[q] = request[q] /\ dialog'[q] = dialog[q],
         dialog'[o] = dialog[o] \/ dialog'[o] = NoDialog
           \/ (about \in Switch /\ dialog'[o].of = about),
         \/ request'[o] = request[o] \/ request'[o] = NoCall
         \/ /\ "step" \in DOMAIN request'[o] /\ request'[o].step \in {"audit", "key audit"}
            /\ request'[o].step = "audit" => about \in Switch
         \/ /\ {"step", "of", "value", "asked"} \subseteq DOMAIN request'[o]
            /\ request'[o].step = "write" /\ about \in Switch /\ request'[o].of = about
            /\ about \in {"GLOBAL", "CHAIN"} => request'[o].value = request'[o].asked
         \/ /\ DOMAIN request'[o] = {"step", "values", "todo", "before"}
            /\ request'[o].step \in {"current", "upsert"}
            /\ request'[o].values \in [Param -> Value] /\ request'[o].todo \subseteq Param
         \/ /\ "step" \in DOMAIN request'[o] /\ request'[o].step = "key"
            /\ request'[o].value \in WalletKey \cup {Unset}
  PROVE  Requests'
<1>1. /\ "step" \in DOMAIN NoCall /\ NoCall.step = "none"
  BY DEF NoCall
<1>2. ASSUME NEW q \in Operator
      PROVE  /\ dialog'[q] = NoDialog \/ (about \in Switch /\ dialog'[q].of = about)
             /\ "step" \in DOMAIN request'[q]
             /\ request'[q].step = "write" =>
                  /\ about \in Switch /\ request'[q].of = about
                  /\ {"of", "value", "asked"} \subseteq DOMAIN request'[q]
                  /\ about \in {"GLOBAL", "CHAIN"} => request'[q].value = request'[q].asked
             /\ request'[q].step = "audit" => about \in Switch
             /\ request'[q].step \in {"current", "upsert"} =>
                  /\ DOMAIN request'[q] = {"step", "values", "todo", "before"}
                  /\ request'[q].values \in [Param -> Value] /\ request'[q].todo \subseteq Param
             /\ request'[q].step = "key" => request'[q].value \in WalletKey \cup {Unset}
  <2>1. CASE q # o
    BY <2>1, ZenonT(40) DEF Requests, NoDialog
  <2>2. CASE q = o
    BY <1>1, <2>2 DEF Requests, NoDialog
  <2>. QED
    BY <2>1, <2>2
<1>. QED
  BY <1>2 DEF Requests, NoDialog

\* An operator at a switch.
LEMMA SwitchStep ==
  ASSUME ConsoleInv, NEW o \in Operator, NEW s \in Switch, NEW ok \in BOOLEAN,
         \/ Poll(o) \/ Cancel(o) \/ Confirm(o) \/ ConfirmVenue(o)
         \/ WriteSwitch(o) \/ UpdateToken(o) \/ EditFlags(o, ok) \/ SwitchAnswered(o, ok)
         \/ OpenDialog(o, s) \/ ClickAtOnce(o, s)
  PROVE  ConsoleInv'
<1>1. Requests /\ Switches /\ Parameters /\ Signing
  BY DEF ConsoleInv
<1>2. UNCHANGED <<about, paramVars>>
  BY DEF Poll, Cancel, Confirm, ConfirmVenue, Confirmed, WriteSwitch, UpdateToken, Written,
         EditFlags, SwitchAnswered, OpenDialog, ClickAtOnce
<1>3. Parameters' /\ Signing'
  BY <1>1, <1>2, ParametersKept, SigningKept DEF paramVars
<1>4. CASE Poll(o)
  <2>1. UNCHANGED <<about, on, switched, worker, request, dialog>>
    BY <1>4 DEF Poll, workerVars
  <2>2. Requests'
    BY <1>1, <2>1 DEF Requests
  <2>. QED
    BY <1>1, <1>3, <2>1, <2>2, SwitchesKept DEF ConsoleInv
<1>5. CASE Cancel(o) \/ EditFlags(o, ok) \/ OpenDialog(o, s)
  <2>1. UNCHANGED <<about, on, switched, worker, request>>
    BY <1>5 DEF Cancel, EditFlags, OpenDialog, workerVars
  <2>2. /\ DOMAIN dialog' = Operator
        /\ \A q \in Operator \ {o} : dialog'[q] = dialog[q]
        /\ dialog'[o] = NoDialog \/ (about \in Switch /\ dialog'[o].of = about)
    BY <1>1, <1>5 DEF Requests, Cancel, EditFlags, OpenDialog, Switch
  <2>3. Requests'
    BY <1>1, <2>1, <2>2, RequestsKept DEF Requests
  <2>. QED
    BY <1>1, <1>3, <2>1, <2>3, SwitchesKept DEF ConsoleInv
<1>6. CASE Confirm(o) \/ ConfirmVenue(o)
  <2>1. UNCHANGED <<about, on, switched, worker>>
    BY <1>6 DEF Confirm, ConfirmVenue, Confirmed, workerVars
  <2>2. dialog[o].of \in Switch /\ about \in Switch /\ dialog[o].of = about
    <3>1. dialog[o].of \in Switch
      BY <1>6 DEF Confirm, ConfirmVenue, Switch
    <3>2. dialog[o] # NoDialog
      BY <3>1, ConsoleAssumption DEF NoDialog
    <3>. QED
      BY <1>1, <3>1, <3>2 DEF Requests
  <2>3. PICK value :
          /\ request' = [request EXCEPT ![o] =
               [step |-> "write", of |-> dialog[o].of, value |-> value, asked |-> dialog[o].asked]]
          /\ dialog' = [dialog EXCEPT ![o] = NoDialog]
          /\ about \in {"GLOBAL", "CHAIN"} => value = dialog[o].asked
    <3>1. CASE Confirm(o)
      BY <3>1 DEF Confirm, Confirmed
    <3>2. CASE ConfirmVenue(o)
      BY <2>2, <3>2 DEF ConfirmVenue, Confirmed
    <3>. QED
      BY <1>6, <3>1, <3>2
  <2>4. /\ DOMAIN request' = Operator /\ DOMAIN dialog' = Operator
        /\ \A q \in Operator \ {o} : request'[q] = request[q] /\ dialog'[q] = dialog[q]
        /\ dialog'[o] = NoDialog
        /\ request'[o] = [step |-> "write", of |-> dialog[o].of, value |-> value,
                          asked |-> dialog[o].asked]
    BY <1>1, <2>3 DEF Requests
  <2>5. /\ {"step", "of", "value", "asked"} \subseteq DOMAIN request'[o]
        /\ request'[o].step = "write" /\ request'[o].of = dialog[o].of
        /\ request'[o].value = value /\ request'[o].asked = dialog[o].asked
    BY <2>4
  <2>6. Requests'
    BY <1>1, <2>1, <2>2, <2>3, <2>4, <2>5, RequestsKept
  <2>. QED
    BY <1>1, <1>3, <2>1, <2>6, SwitchesKept DEF ConsoleInv
<1>7. CASE ClickAtOnce(o, s)
  <2>1. UNCHANGED <<about, on, switched, worker, dialog>> /\ about = s
    BY <1>7 DEF ClickAtOnce, switchVars, workerVars
  <2>2. /\ DOMAIN request' = Operator
        /\ \A q \in Operator \ {o} : request'[q] = request[q]
        /\ request'[o] = [step |-> "write", of |-> s, value |-> ~shown[o][s], asked |-> ~shown[o][s]]
    BY <1>1, <1>7 DEF Requests, ClickAtOnce
  <2>3. /\ {"step", "of", "value", "asked"} \subseteq DOMAIN request'[o]
        /\ request'[o].step = "write" /\ request'[o].of = s
        /\ request'[o].value = request'[o].asked
    BY <2>2
  <2>4. DOMAIN dialog' = Operator /\ dialog' = dialog
    BY <1>1, <2>1 DEF Requests
  <2>5. Requests'
    BY <1>1, <2>1, <2>2, <2>3, <2>4, RequestsKept
  <2>. QED
    BY <1>1, <1>3, <2>1, <2>5, SwitchesKept DEF ConsoleInv
<1>8. CASE WriteSwitch(o) \/ UpdateToken(o)
  <2>1. /\ request[o].step = "write"
        /\ on' = [on EXCEPT ![request[o].of] = request[o].value]
        /\ switched' = [by |-> o, value |-> request[o].value, told |-> FALSE]
        /\ worker' = [worker EXCEPT !.fresh = FALSE]
        /\ request' = [request EXCEPT ![o] = [request[o] EXCEPT !.step = "audit"]]
        /\ UNCHANGED dialog
    BY <1>8 DEF WriteSwitch, UpdateToken, Written
  <2>2. about \in Switch /\ request[o].of = about /\ "step" \in DOMAIN request[o]
    BY <1>1, <2>1 DEF Requests
  <2>3. /\ DOMAIN request' = Operator
        /\ \A q \in Operator \ {o} : request'[q] = request[q]
        /\ "step" \in DOMAIN request'[o] /\ request'[o].step = "audit"
    BY <1>1, <2>1, <2>2 DEF Requests
  <2>4. Requests'
    BY <1>1, <1>2, <2>1, <2>2, <2>3, RequestsKept DEF Requests
  <2>5. Switches'
    <3>1. on'[about] = request[o].value /\ DOMAIN on' = Switch
      BY <1>1, <2>1, <2>2 DEF Switches
    <3>2. worker'.fresh = FALSE /\ DOMAIN worker' = {"does", "fresh"}
      BY <1>1, <2>1 DEF Switches
    <3>3. /\ DOMAIN switched' = {"by", "value", "told"}
          /\ switched'.by = o /\ switched'.value = request[o].value /\ switched'.told = FALSE
      BY <2>1
    <3>. QED
      BY <1>2, <2>2, <3>1, <3>2, <3>3 DEF Switches
  <2>. QED
    BY <1>3, <2>4, <2>5 DEF ConsoleInv
<1>9. CASE SwitchAnswered(o, ok)
  <2>1. /\ switched' = IF ok /\ switched.by = o THEN [switched EXCEPT !.told = TRUE] ELSE switched
        /\ request' = [request EXCEPT ![o] = NoCall]
        /\ UNCHANGED <<about, on, worker, dialog>>
    BY <1>9 DEF SwitchAnswered
  <2>2. Requests'
    BY <1>1, <2>1, RequestsKept DEF Requests
  <2>3. Switches'
    <3>1. CASE ok /\ switched.by = o
      <4>1. /\ DOMAIN switched' = {"by", "value", "told"} /\ switched'.by = switched.by
            /\ switched'.value = switched.value
        BY <1>1, <2>1, <3>1 DEF Switches
      <4>. QED
        BY <1>1, <2>1, <3>1, <4>1 DEF Switches
    <3>2. CASE ~(ok /\ switched.by = o)
      BY <1>1, <2>1, <3>2, SwitchesKept
    <3>. QED
      BY <3>1, <3>2
  <2>. QED
    BY <1>3, <2>2, <2>3 DEF ConsoleInv
<1>. QED
  BY <1>4, <1>5, <1>6, <1>7, <1>8, <1>9

\* What the worker sees is what is set.
LEMMA WorkerSeesStep ==
  ASSUME ConsoleInv, NEW b \in BOOLEAN,
         AutoKilled \/ RegisterAdapters(b) \/ LoadTargetTokens(b) \/ CheckTokenFlags
  PROVE  ConsoleInv'
<1>1. Requests /\ Switches /\ Parameters /\ Signing
  BY DEF ConsoleInv
<1>2. UNCHANGED <<about, dialog, request, paramVars>>
  BY DEF AutoKilled, RegisterAdapters, LoadTargetTokens, CheckTokenFlags, WorkerSees
<1>3. Requests' /\ Parameters' /\ Signing'
  <2>1. Requests'
    BY <1>1, <1>2 DEF Requests
  <2>. QED
    BY <1>1, <1>2, <2>1, ParametersKept, SigningKept DEF paramVars
<1>4. CASE AutoKilled
  <2>1. /\ about = "GLOBAL" /\ on' = [on EXCEPT !["GLOBAL"] = TRUE]
        /\ switched' = [by |-> Unset, value |-> TRUE, told |-> FALSE]
        /\ UNCHANGED <<about, worker>>
    BY <1>4 DEF AutoKilled
  <2>2. ~worker.fresh
    BY <1>1, <2>1 DEF Switches
  <2>3. DOMAIN switched' = {"by", "value", "told"} /\ switched'.by = Unset /\ switched'.told = FALSE
    BY <2>1
  <2>4. DOMAIN on' = Switch
    BY <1>1, <2>1 DEF Switches
  <2>5. Switches'
    BY <1>1, <2>1, <2>2, <2>3, <2>4, ConsoleAssumption DEF Switches
  <2>. QED
    BY <1>3, <2>5 DEF ConsoleInv
<1>5. CASE RegisterAdapters(b) \/ LoadTargetTokens(b) \/ CheckTokenFlags
  <2>1. /\ DOMAIN worker' = {"does", "fresh"} /\ UNCHANGED <<about, on, switched>>
        /\ about \in {"venue", "token", "flag"}
        /\ about # "venue" =>
             \/ worker'.does = "tracked"
             \/ worker'.does \in {"target", "refuses"} /\ on[about]
             \/ worker'.does \notin {"target", "refuses"} /\ ~on[about]
    <3>1. CASE RegisterAdapters(b)
      <4>1. /\ about = "venue" /\ UNCHANGED <<about, on, switched>>
            /\ worker' = [does |-> IF on["venue"] THEN "venue" ELSE IF b THEN "none" ELSE "mocks",
                          fresh |-> TRUE]
        BY <3>1 DEF RegisterAdapters, WorkerSees
      <4>2. /\ worker'.does = IF on["venue"] THEN "venue" ELSE IF b THEN "none" ELSE "mocks"
            /\ DOMAIN worker' = {"does", "fresh"}
        BY <4>1
      <4>. QED
        BY <4>1, <4>2
    <3>2. CASE LoadTargetTokens(b)
      <4>1. /\ about = "token" /\ UNCHANGED <<about, on, switched>>
            /\ worker' = [does |-> IF b THEN "tracked" ELSE IF on["token"] THEN "target" ELSE "none",
                          fresh |-> TRUE]
        BY <3>2 DEF LoadTargetTokens, WorkerSees
      <4>2. /\ worker'.does = IF b THEN "tracked" ELSE IF on["token"] THEN "target" ELSE "none"
            /\ DOMAIN worker' = {"does", "fresh"}
        BY <4>1
      <4>. QED
        BY <4>1, <4>2
    <3>3. CASE CheckTokenFlags
      <4>1. /\ about = "flag" /\ UNCHANGED <<about, on, switched>>
            /\ worker' = [does |-> IF on["flag"] THEN "refuses" ELSE "trades", fresh |-> TRUE]
        BY <3>3 DEF CheckTokenFlags, WorkerSees
      <4>2. /\ worker'.does = IF on["flag"] THEN "refuses" ELSE "trades"
            /\ DOMAIN worker' = {"does", "fresh"}
        BY <4>1
      <4>. QED
        BY <4>1, <4>2
    <3>. QED
      BY <1>5, <3>1, <3>2, <3>3
  <2>2. Switches'
    BY <1>1, <2>1 DEF Switches
  <2>. QED
    BY <1>3, <2>2 DEF ConsoleInv
<1>. QED
  BY <1>4, <1>5

\* The page's form, and what is written of it.
LEMMA FormStep ==
  ASSUME ConsoleInv, NEW o \in Operator, NEW p, NEW v, NEW filled \in SUBSET Param,
         \/ OpenForm(o) \/ (p \in Param /\ v \in Value /\ EditForm(o, p, v)) \/ Save(o, filled)
         \/ Current(o) \/ SaveFails(o) \/ (p \in Param /\ Upsert(o, p)) \/ Saved(o)
  PROVE  ConsoleInv'
<1>1. Requests /\ Switches /\ Parameters /\ Signing
  BY DEF ConsoleInv
<1>2. UNCHANGED <<about, switchVars, keyVars>>
  BY DEF OpenForm, EditForm, Save, Current, SaveFails, Upsert, Saved, paramVars
<1>3. Switches' /\ Signing'
  BY <1>1, <1>2, SwitchesKept, SigningKept DEF switchVars, workerVars
<1>4. CASE OpenForm(o) \/ (p \in Param /\ v \in Value /\ EditForm(o, p, v))
  <2>1. UNCHANGED <<request, dialog, stored, acked, live>>
    BY <1>2, <1>4 DEF OpenForm, EditForm, switchVars
  <2>2. draft' \in [Operator -> [Param -> Value]]
    <3>1. Effective \in [Param -> Value]
      BY <1>1, ConsoleAssumption DEF Parameters, Effective
    <3>2. CASE OpenForm(o)
      BY <1>1, <3>1, <3>2 DEF OpenForm, Parameters
    <3>3. CASE p \in Param /\ v \in Value /\ EditForm(o, p, v)
      BY <1>1, <3>3 DEF EditForm, Parameters
    <3>. QED
      BY <1>4, <3>2, <3>3
  <2>3. Parameters'
    BY <1>1, <2>1, <2>2 DEF Parameters, AllFit, Effective
  <2>4. Requests'
    BY <1>1, <1>2, <2>1 DEF Requests
  <2>. QED
    BY <1>3, <2>3, <2>4 DEF ConsoleInv
<1>5. CASE Save(o, filled)
  <2>1. /\ request' = [request EXCEPT ![o] = [step |-> "current", values |-> draft[o],
                                              todo |-> filled, before |-> Default]]
        /\ UNCHANGED <<dialog, stored, draft, acked, live>>
    BY <1>2, <1>5 DEF Save, switchVars
  <2>2. draft[o] \in [Param -> Value]
    BY <1>1 DEF Parameters
  <2>3. /\ DOMAIN request' = Operator /\ DOMAIN dialog' = Operator /\ dialog' = dialog
        /\ \A q \in Operator \ {o} : request'[q] = request[q]
        /\ request'[o] = [step |-> "current", values |-> draft[o], todo |-> filled,
                          before |-> Default]
    BY <1>1, <2>1 DEF Requests
  <2>4. /\ DOMAIN request'[o] = {"step", "values", "todo", "before"}
        /\ request'[o].step = "current" /\ request'[o].values = draft[o] /\ request'[o].todo = filled
    BY <2>3
  <2>5. Requests'
    BY <1>1, <1>2, <2>2, <2>3, <2>4, RequestsKept
  <2>. QED
    BY <1>1, <1>3, <2>1, <2>5, ParametersKept DEF ConsoleInv
<1>6. CASE Current(o)
  <2>1. UNCHANGED <<dialog, stored, draft, acked, live>>
    BY <1>2, <1>6 DEF Current, switchVars, paramVars
  <2>. DEFINE begun == [request[o] EXCEPT !.step = "upsert", !.before = Effective]
  <2>2. /\ request[o].step = "current"
        /\ request' = [request EXCEPT ![o] = IF AllFit THEN begun ELSE NoCall]
    BY <1>6 DEF Current
  <2>3. /\ DOMAIN request[o] = {"step", "values", "todo", "before"}
        /\ request[o].values \in [Param -> Value] /\ request[o].todo \subseteq Param
    BY <1>1, <2>2 DEF Requests
  <2>4. /\ DOMAIN begun = {"step", "values", "todo", "before"}
        /\ begun.step = "upsert" /\ begun.values = request[o].values /\ begun.todo = request[o].todo
    BY <2>3
  <2>. HIDE DEF begun
  <2>5. /\ DOMAIN request' = Operator /\ DOMAIN dialog' = Operator /\ dialog' = dialog
        /\ \A q \in Operator \ {o} : request'[q] = request[q]
        /\ request'[o] \in {begun, NoCall}
    BY <1>1, <2>1, <2>2 DEF Requests
  <2>6. Requests'
    BY <1>1, <1>2, <2>3, <2>4, <2>5, RequestsKept
  <2>. QED
    BY <1>1, <1>3, <2>1, <2>6, ParametersKept DEF ConsoleInv
<1>7. CASE SaveFails(o)
  <2>1. /\ request' = [request EXCEPT ![o] = NoCall]
        /\ UNCHANGED <<dialog, stored, draft, acked, live>>
    BY <1>2, <1>7 DEF SaveFails, switchVars, paramVars
  <2>2. Requests'
    BY <1>1, <1>2, <2>1, RequestsKept DEF Requests
  <2>. QED
    BY <1>1, <1>3, <2>1, <2>2, ParametersKept DEF ConsoleInv
<1>8. CASE p \in Param /\ Upsert(o, p)
  <2>1. /\ request[o].step = "upsert" /\ p \in request[o].todo
        /\ stored' = [stored EXCEPT ![p] = request[o].values[p]]
        /\ acked' = [acked EXCEPT ![p] = [by |-> o, value |-> request[o].values[p], told |-> FALSE]]
        /\ live' = [live EXCEPT !.fresh = FALSE]
        /\ request' = [request EXCEPT ![o] = [request[o] EXCEPT !.todo = request[o].todo \ {p}]]
        /\ UNCHANGED <<dialog, draft>>
    BY <1>2, <1>8 DEF Upsert, switchVars
  <2>2. /\ DOMAIN request[o] = {"step", "values", "todo", "before"}
        /\ request[o].values \in [Param -> Value] /\ request[o].todo \subseteq Param
    BY <1>1, <2>1 DEF Requests
  <2>3. /\ DOMAIN request' = Operator /\ DOMAIN dialog' = Operator /\ dialog' = dialog
        /\ \A q \in Operator \ {o} : request'[q] = request[q]
        /\ DOMAIN request'[o] = {"step", "values", "todo", "before"}
        /\ request'[o].step = "upsert" /\ request'[o].values = request[o].values
        /\ request'[o].todo = request[o].todo \ {p}
    BY <1>1, <2>1, <2>2 DEF Requests
  <2>4. Requests'
    <3>1. request'[o].values \in [Param -> Value] /\ request'[o].todo \subseteq Param
      BY <2>2, <2>3
    <3>. QED
      BY <1>1, <1>2, <2>3, <3>1, RequestsKept
  <2>5. Parameters'
    <3>1. request[o].values[p] \in Value
      BY <1>8, <2>2
    <3>2. stored' \in [Param -> Value \cup {Unset}] /\ draft' \in [Operator -> [Param -> Value]]
      BY <1>1, <2>1, <3>1 DEF Parameters
    <3>3. DOMAIN live' = {"params", "fresh"} /\ live'.fresh = FALSE
      BY <1>1, <2>1 DEF Parameters
    <3>4. DOMAIN acked' = Param
      BY <1>1, <2>1 DEF Parameters
    <3>5. ASSUME NEW r \in Param
          PROVE  /\ DOMAIN acked'[r] = {"by", "value", "told"}
                 /\ acked'[r].by \in Operator =>
                      stored'[r] = acked'[r].value /\ acked'[r].value \in Value
                 /\ acked'[r].told => acked'[r].by \in Operator
      <4>1. CASE r = p
        <5>1. /\ acked'[r] = [by |-> o, value |-> request[o].values[p], told |-> FALSE]
              /\ stored'[r] = request[o].values[p]
          BY <1>1, <2>1, <4>1 DEF Parameters
        <5>. QED
          BY <3>1, <5>1
      <4>2. CASE r # p
        <5>1. acked'[r] = acked[r] /\ stored'[r] = stored[r]
          BY <1>1, <2>1, <4>2 DEF Parameters
        <5>. QED
          BY <1>1, <5>1 DEF Parameters
      <4>. QED
        BY <4>1, <4>2
    <3>. QED
      BY <3>2, <3>3, <3>4, <3>5 DEF Parameters
  <2>. QED
    BY <1>3, <2>4, <2>5 DEF ConsoleInv
<1>9. CASE Saved(o)
  <2>1. /\ acked' = [r \in Param |->
             IF AllFit /\ acked[r].by = o THEN [acked[r] EXCEPT !.told = TRUE]
             ELSE acked[r]]
        /\ request' = [request EXCEPT ![o] = NoCall]
        /\ UNCHANGED <<dialog, stored, draft, live>>
    BY <1>2, <1>9 DEF Saved, switchVars
  <2>2. Requests'
    BY <1>1, <1>2, <2>1, RequestsKept DEF Requests
  <2>3. ASSUME NEW r \in Param
        PROVE  /\ DOMAIN acked'[r] = {"by", "value", "told"}
               /\ acked'[r].by = acked[r].by /\ acked'[r].value = acked[r].value
               /\ acked'[r].told => acked[r].told \/ acked[r].by = o
    BY <1>1, <2>1 DEF Parameters
  <2>4. Parameters'
    BY <1>1, <2>1, <2>3 DEF Parameters, AllFit, Effective
  <2>. QED
    BY <1>3, <2>2, <2>4 DEF ConsoleInv
<1>. QED
  BY <1>4, <1>5, <1>6, <1>7, <1>8, <1>9

\* The key of the wallet.
LEMMA KeyStep ==
  ASSUME ConsoleInv, NEW o \in Operator, NEW k \in WalletKey \cup {Unset}, NEW ok \in BOOLEAN,
         ChangeKey(o, k) \/ WriteKey(o) \/ KeyChanged(o, ok)
  PROVE  ConsoleInv'
<1>1. Requests /\ Switches /\ Parameters /\ Signing
  BY DEF ConsoleInv
<1>2. UNCHANGED <<about, switchVars, stored, draft, acked, live>>
  BY DEF ChangeKey, WriteKey, KeyChanged
<1>3. Switches' /\ Parameters' /\ DOMAIN dialog' = Operator /\ dialog' = dialog
  BY <1>1, <1>2, SwitchesKept, ParametersKept DEF switchVars, workerVars, Requests
<1>4. CASE ChangeKey(o, k)
  <2>1. request' = [request EXCEPT ![o] = [step |-> "key", value |-> k]] /\ UNCHANGED keyVars
    BY <1>4 DEF ChangeKey
  <2>2. /\ DOMAIN request' = Operator
        /\ \A q \in Operator \ {o} : request'[q] = request[q]
        /\ "step" \in DOMAIN request'[o] /\ request'[o].step = "key" /\ request'[o].value = k
    BY <1>1, <2>1 DEF Requests
  <2>3. Requests'
    BY <1>1, <1>2, <1>3, <2>2, RequestsKept
  <2>. QED
    BY <1>1, <1>3, <2>1, <2>3, SigningKept DEF ConsoleInv
<1>5. CASE WriteKey(o)
  <2>1. /\ request[o].step = "key" /\ key' = request[o].value
        /\ keyAcked' = [by |-> o, value |-> request[o].value, told |-> FALSE]
        /\ signer' = [signer EXCEPT !.fresh = FALSE]
        /\ request' = [request EXCEPT ![o] = [request[o] EXCEPT !.step = "key audit"]]
    BY <1>5 DEF WriteKey
  <2>2. /\ DOMAIN request' = Operator
        /\ \A q \in Operator \ {o} : request'[q] = request[q]
        /\ "step" \in DOMAIN request'[o] /\ request'[o].step = "key audit"
    BY <1>1, <2>1 DEF Requests
  <2>3. Requests'
    BY <1>1, <1>2, <1>3, <2>2, RequestsKept
  <2>4. Signing'
    <3>1. /\ DOMAIN keyAcked' = {"by", "value", "told"}
          /\ keyAcked'.value = key' /\ keyAcked'.told = FALSE
      BY <2>1
    <3>2. DOMAIN signer' = {"key", "fresh"} /\ signer'.fresh = FALSE
      BY <1>1, <2>1 DEF Signing
    <3>. QED
      BY <3>1, <3>2 DEF Signing
  <2>. QED
    BY <1>3, <2>3, <2>4 DEF ConsoleInv
<1>6. CASE KeyChanged(o, ok)
  <2>1. /\ keyAcked' = IF ok /\ keyAcked.by = o THEN [keyAcked EXCEPT !.told = TRUE] ELSE keyAcked
        /\ request' = [request EXCEPT ![o] = NoCall]
        /\ UNCHANGED <<key, signer>>
    BY <1>6 DEF KeyChanged
  <2>2. Requests'
    BY <1>1, <1>2, <1>3, <2>1, RequestsKept DEF Requests
  <2>3. Signing'
    <3>1. CASE ok /\ keyAcked.by = o
      <4>1. /\ DOMAIN keyAcked' = {"by", "value", "told"} /\ keyAcked'.by = o
            /\ keyAcked'.value = keyAcked.value
        BY <1>1, <2>1, <3>1 DEF Signing
      <4>. QED
        BY <1>1, <2>1, <3>1, <4>1 DEF Signing
    <3>2. CASE ~(ok /\ keyAcked.by = o)
      BY <1>1, <2>1, <3>2, SigningKept DEF keyVars
    <3>. QED
      BY <3>1, <3>2
  <2>. QED
    BY <1>3, <2>2, <2>3 DEF ConsoleInv
<1>. QED
  BY <1>4, <1>5, <1>6

\* The worker loads its parameters, or an execution its key.
LEMMA LoadStep ==
  ASSUME ConsoleInv, LoadLive \/ ResolveWallet
  PROVE  ConsoleInv'
<1>1. Requests /\ Switches /\ Parameters /\ Signing
  BY DEF ConsoleInv
<1>2. UNCHANGED <<about, switchVars, request, stored, draft, acked, key, keyAcked>>
  BY DEF LoadLive, ResolveWallet, keyVars
<1>3. Requests' /\ Switches'
  <2>1. Requests'
    BY <1>1, <1>2 DEF Requests, switchVars
  <2>. QED
    BY <1>1, <1>2, <2>1, SwitchesKept DEF switchVars, workerVars
<1>4. CASE LoadLive
  <2>1. /\ live' = [params |-> IF AllFit THEN Effective ELSE Default, fresh |-> TRUE]
        /\ UNCHANGED keyVars
    BY <1>4 DEF LoadLive
  <2>2. DOMAIN live' = {"params", "fresh"} /\ live'.params = IF AllFit THEN Effective ELSE Default
    BY <2>1
  <2>3. AllFit' = AllFit /\ Effective' = Effective
    BY <1>2 DEF AllFit, Effective
  <2>4. Parameters'
    BY <1>1, <1>2, <2>2, <2>3 DEF Parameters
  <2>. QED
    BY <1>1, <1>3, <2>1, <2>4, SigningKept DEF ConsoleInv
<1>5. CASE ResolveWallet
  <2>1. /\ signer' = [key |-> IF EnvKey # Unset THEN EnvKey ELSE IF key # Unset THEN key ELSE FileKey,
                      fresh |-> TRUE]
        /\ UNCHANGED live
    BY <1>5 DEF ResolveWallet
  <2>2. Signing'
    BY <1>1, <1>2, <2>1 DEF Signing
  <2>. QED
    BY <1>1, <1>2, <1>3, <2>1, <2>2, ParametersKept DEF ConsoleInv
<1>. QED
  BY <1>4, <1>5

LEMMA ConsoleStep ==
  ASSUME ConsoleInv, [ConsoleNext]_consoleVars
  PROVE  ConsoleInv'
<1>1. CASE UNCHANGED consoleVars
  <2>1. UNCHANGED <<about, on, switched, worker, request, dialog, stored, draft, acked, live, keyVars>>
    BY <1>1 DEF consoleVars, keyVars
  <2>2. Requests'
    BY <2>1 DEF ConsoleInv, Requests
  <2>. QED
    BY <2>1, <2>2, SwitchesKept, ParametersKept, SigningKept DEF ConsoleInv
<1>2. ASSUME NEW o \in Operator,
             \/ Poll(o) \/ Cancel(o) \/ Confirm(o) \/ ConfirmVenue(o)
             \/ WriteSwitch(o) \/ UpdateToken(o)
             \/ \E ok \in BOOLEAN : EditFlags(o, ok) \/ SwitchAnswered(o, ok)
             \/ \E s \in Switch : OpenDialog(o, s) \/ ClickAtOnce(o, s)
      PROVE  ConsoleInv'
  <2>1. TRUE \in BOOLEAN /\ "GLOBAL" \in Switch
    BY DEF Switch
  <2>. QED
    BY <1>2, <2>1, SwitchStep
<1>3. ASSUME NEW o \in Operator,
             \/ OpenForm(o) \/ Current(o) \/ Saved(o) \/ SaveFails(o)
             \/ \E p \in Param : Upsert(o, p) \/ \E v \in Value : EditForm(o, p, v)
             \/ \E filled \in SUBSET Param : Save(o, filled)
      PROVE  ConsoleInv'
  <2>1. {} \in SUBSET Param
    OBVIOUS
  <2>. QED
    BY <1>3, <2>1, FormStep
<1>4. ASSUME NEW o \in Operator,
             \/ \E k \in WalletKey \cup {Unset} : ChangeKey(o, k)
             \/ WriteKey(o) \/ \E ok \in BOOLEAN : KeyChanged(o, ok)
      PROVE  ConsoleInv'
  <2>1. TRUE \in BOOLEAN /\ Unset \in WalletKey \cup {Unset}
    OBVIOUS
  <2>. QED
    BY <1>4, <2>1, KeyStep
<1>5. CASE AutoKilled \/ CheckTokenFlags \/ \E b \in BOOLEAN : RegisterAdapters(b) \/ LoadTargetTokens(b)
  BY <1>5, WorkerSeesStep
<1>6. CASE LoadLive \/ ResolveWallet
  BY <1>6, LoadStep
<1>. QED
  BY <1>1, <1>2, <1>3, <1>4, <1>5, <1>6 DEF ConsoleNext

LEMMA ConsoleStarts == ConsoleInit => ConsoleInv
<1>. SUFFICES ASSUME ConsoleInit PROVE ConsoleInv
  OBVIOUS
<1>1. Requests
  BY ConsoleAssumption DEF ConsoleInit, Requests, NoCall
<1>2. Switches
  <2>1. /\ DOMAIN on = Switch
        /\ switched = [by |-> Unset, value |-> FALSE, told |-> FALSE]
        /\ worker = [does |-> "venue", fresh |-> FALSE]
    BY DEF ConsoleInit
  <2>2. /\ DOMAIN switched = {"by", "value", "told"} /\ DOMAIN worker = {"does", "fresh"}
        /\ switched.by \notin Operator /\ ~switched.told /\ ~worker.fresh
    BY <2>1, ConsoleAssumption
  <2>3. DOMAIN on = Switch
    BY <2>1
  <2>. QED
    BY <2>2, <2>3 DEF Switches
<1>3. Parameters
  <2>1. /\ stored = [p \in Param |-> Unset] /\ draft = [o \in Operator |-> Default]
        /\ acked = [p \in Param |-> [by |-> Unset, value |-> Default[p], told |-> FALSE]]
        /\ live = [params |-> Default, fresh |-> TRUE]
    BY DEF ConsoleInit
  <2>2. Effective = Default
    BY <2>1, ConsoleAssumption DEF Effective
  <2>3. DOMAIN live = {"params", "fresh"} /\ live.params = IF AllFit THEN Effective ELSE Default
    BY <2>1, <2>2
  <2>4. ASSUME NEW p \in Param
        PROVE  DOMAIN acked[p] = {"by", "value", "told"} /\ acked[p].by = Unset /\ ~acked[p].told
    BY <2>1
  <2>. QED
    BY <2>1, <2>3, <2>4, ConsoleAssumption DEF Parameters
<1>4. Signing
  BY ConsoleAssumption DEF ConsoleInit, Signing
<1>. QED
  BY <1>1, <1>2, <1>3, <1>4 DEF ConsoleInv

LEMMA TakesEffect == ConsoleInv => SavedTakesEffect
<1>. SUFFICES ASSUME ConsoleInv PROVE SavedTakesEffect
  OBVIOUS
<1>1. about # "venue" /\ worker.fresh /\ switched.told /\ worker.does # "tracked" =>
        (worker.does \in {"target", "refuses"} <=> switched.value)
  BY DEF ConsoleInv, Switches
<1>2. ASSUME live.fresh, AllFit, NEW p \in Param, acked[p].told
      PROVE  live.params[p] = acked[p].value
  <2>1. live.params[p] = Effective[p] /\ stored[p] = acked[p].value /\ acked[p].value \in Value
    BY <1>2 DEF ConsoleInv, Parameters
  <2>2. stored[p] # Unset
    BY <2>1, ConsoleAssumption
  <2>. QED
    BY <2>1, <2>2 DEF Effective
<1>3. signer.fresh /\ keyAcked.told =>
        signer.key = IF EnvKey # Unset THEN EnvKey
                     ELSE IF keyAcked.value # Unset THEN keyAcked.value ELSE FileKey
  BY DEF ConsoleInv, Signing
<1>. QED
  BY <1>1, <1>2, <1>3 DEF SavedTakesEffect

\* What an operator was told is saved is what the worker uses once it has looked:
\* a token, its flags, every parameter, whatever key is stored beside them, and
\* the wallet's key.
THEOREM SavedTakesEffectAlways == ConsoleSpec => []SavedTakesEffect
<1>1. ConsoleInv /\ [ConsoleNext]_consoleVars => ConsoleInv'
  BY ConsoleStep
<1>. QED
  BY <1>1, ConsoleStarts, TakesEffect, PTL DEF ConsoleSpec

\* Only WriteSwitch, UpdateToken and the risk engine set a switch.
LEMMA ReleaseIsAsked ==
  ASSUME ConsoleInv, ConsoleNext, NEW s \in {"GLOBAL", "CHAIN"}, on[s], ~on'[s]
  PROVE  \E o \in Operator : request[o].step = "write" /\ request[o].of = s /\ ~request[o].asked
<1>1. PICK o \in Operator : WriteSwitch(o) \/ UpdateToken(o)
  <2>1. ~UNCHANGED on
    OBVIOUS
  <2>2. ~AutoKilled
    <3>. SUFFICES ASSUME AutoKilled PROVE FALSE
      OBVIOUS
    <3>1. on' = [on EXCEPT !["GLOBAL"] = TRUE] /\ DOMAIN on = Switch
      BY DEF AutoKilled, ConsoleInv, Switches
    <3>. QED
      BY <3>1 DEF Switch
  <2>. QED
    BY <2>1, <2>2, ZenonT(40) DEF ConsoleNext, Poll, Cancel, Confirm, ConfirmVenue, Confirmed, EditFlags,
       SwitchAnswered, OpenDialog, ClickAtOnce, OpenForm, Current, Saved, SaveFails, Upsert, EditForm,
       Save, ChangeKey, WriteKey, KeyChanged, RegisterAdapters, LoadTargetTokens, CheckTokenFlags,
       WorkerSees, LoadLive, ResolveWallet, switchVars
<1>2. /\ request[o].step = "write" /\ on' = [on EXCEPT ![request[o].of] = request[o].value]
      /\ about \in Switch /\ request[o].of = about /\ DOMAIN on = Switch
      /\ about \in {"GLOBAL", "CHAIN"} => request[o].value = request[o].asked
  BY <1>1 DEF WriteSwitch, UpdateToken, Written, ConsoleInv, Requests, Switches
<1>3. about = s
  BY <1>2
<1>4. on'[s] = request[o].asked
  BY <1>2, <1>3 DEF Switch
<1>. QED
  BY <1>2, <1>3, <1>4

\* A kill switch is released by an operator who asked for its release.
THEOREM ReleasesAreAsked == ConsoleSpec => ReleasedOnPurpose
<1>1. ConsoleInv /\ [ConsoleNext]_consoleVars => ConsoleInv'
  BY ConsoleStep
<1>2. ConsoleInv /\ [ConsoleNext]_consoleVars =>
        [\A s \in {"GLOBAL", "CHAIN"} :
           on[s] /\ ~on'[s] =>
             \E o \in Operator : request[o].step = "write" /\ request[o].of = s /\ ~request[o].asked]_on
  BY ReleaseIsAsked DEF consoleVars
<1>. QED
  BY <1>1, <1>2, ConsoleStarts, PTL DEF ConsoleSpec, ReleasedOnPurpose

-----------------------------------------------------------------------------
(* Prices                                                                   *)

Known == Nat \cup {Null}
PriceRequest ==
  [step : {"idle", "apis", "chain", "native", "cached", "fetched"} \cup Estimating,
   token : Token \cup {Null}, age : Nat, got : [Token -> Known], left : SUBSET {"cg", "dex", "db"}]

PriceType ==
  /\ service \in PriceSettings
  /\ ask \in [Ask -> PriceRequest]
  /\ cache \in [Token -> [at : 0 .. Oldest, prices : [Token -> Known]]]
  /\ batch \in [at : 0 .. Doubtful + 1, prices : [Token -> Known], omitted : SUBSET Token]
  /\ native \in [at : 0 .. Oldest, age : Known, whose : Token \cup {Null}]
  /\ published \in [left : Nat, age : Known]
  /\ told.prices \in [Token -> Known]

\* How old a request may be: only the body of CoinGecko's answer outlives a race,
\* and nobody of a page waits for it.
InTime(r) == r.age <= (IF r.step \in {"token", "late"} THEN Race + Slow ELSE Race)

\* A request is at a step of its service, and what it has read was no older, when
\* it was read, than its service lets it be.
Proper(r, of, omitted) ==
  /\ r.step \in {"apis", "chain"} => of = "market"
  /\ r.step \in Estimating => of = "fair" /\ r.token \in Token
  /\ r.step \in {"cached", "fetched"} => of = "fair"
  /\ r.step = "native" => of \in {"native", "balance"}
  /\ InTime(r)
  /\ \A t \in Token : r.got[t] # Null =>
       /\ r.step \in {"apis", "chain"} => r.got[t] <= r.age
       /\ r.step \in Estimating \cup {"fetched"} /\ t \notin omitted => r.got[t] <= r.age + Doubtful
       /\ r.step = "cached" /\ t \notin omitted =>
            r.got[t] <= r.age + (Fresh - 1 + Doubtful + Race + Slow)

Asks == \A q \in Ask : Proper(ask[q], service.of, batch.omitted)

\* What is kept is older than the keeping by what it may have been before.
MarketCaches ==
  \A s, t \in Token : service.of = "market" /\ cache[s].prices[t] # Null =>
    cache[s].prices[t] <= cache[s].at + Race
FairCaches ==
  \A s, t \in Token : service.of = "fair" /\ t \notin batch.omitted /\ cache[s].prices[t] # Null =>
    cache[s].prices[t] <= cache[s].at + (Doubtful + Race + Slow)
Batches ==
  \A t \in Token \ batch.omitted : batch.prices[t] # Null => t \in Listed /\ batch.prices[t] <= batch.at

Natives ==
  /\ native.age # Null => native.age <= native.at + Feed
  /\ published.age # Null =>
       published.left > 0 /\ published.age + published.left <= 2 * Minute + Feed

PriceInv == PriceType /\ Asks /\ MarketCaches /\ FairCaches /\ Batches /\ Natives /\ PricesRecent

LEMMA OldestType == /\ Oldest \in Nat /\ Race \in Nat /\ Slow \in Nat /\ Doubtful \in Nat /\ Feed \in Nat
                    /\ Minute \in Nat /\ Fresh \in Nat /\ Stale \in Nat /\ Batch \in Nat
BY PriceAssumption DEF Oldest

\* A tick makes what is kept and what keeps it older alike, up to Oldest.
LEMMA AgesAlike ==
  ASSUME NEW age \in Known, NEW at \in 0 .. Oldest, NEW before \in Nat,
         age # Null => age <= at + before
  PROVE  /\ Older(age) \in Known /\ Older(at) \in 0 .. Oldest
         /\ Older(age) # Null => age # Null /\ Older(age) <= Older(at) + before
<1>1. Null \notin Nat /\ Oldest \in Nat
  BY OldestType, PriceAssumption
<1>2. at \in Nat /\ at <= Oldest /\ at # Null
  BY <1>1
<1>. HIDE DEF Oldest
<1>3. CASE age = Null
  BY <1>1, <1>2, <1>3 DEF Older, Known
<1>4. CASE age # Null
  BY <1>1, <1>2, <1>4 DEF Older, Known
<1>. QED
  BY <1>3, <1>4

LEMMA OlderKnown ==
  ASSUME NEW age \in Known
  PROVE  /\ Older(age) \in Known
         /\ Older(age) # Null => age # Null /\ age \in Nat /\ Older(age) <= age + 1
<1>1. Null \notin Nat /\ Oldest \in Nat
  BY OldestType, PriceAssumption
<1>. QED
  BY <1>1 DEF Older, Known

LEMMA OlderPrices ==
  ASSUME NEW prices \in [Token -> Known]
  PROVE  OlderAll(prices) \in [Token -> Known] /\ \A t \in Token : OlderAll(prices)[t] = Older(prices[t])
BY OlderKnown DEF OlderAll

\* Nothing is asked of an idle request, and nothing is known of NoPrices.
LEMMA IdleAsks ==
  /\ NoPrices \in [Token -> Known] /\ \A t \in Token : NoPrices[t] = Null
  /\ Idle \in PriceRequest
  /\ Idle.step = "idle" /\ Idle.age = 0 /\ Idle.got = NoPrices
BY DEF NoPrices, Idle, Known, PriceRequest

LEMMA IdleIsProper == \A of, omitted : Proper(Idle, of, omitted)
BY IdleAsks, OldestType DEF Proper, InTime, Estimating

\* More tokens left out of batches ask less.
LEMMA ProperStays ==
  ASSUME NEW r, NEW of, NEW omitted, NEW more, omitted \subseteq more, Proper(r, of, omitted)
  PROVE  Proper(r, of, more)
BY DEF Proper

\* One request has changed, and is proper.
LEMMA AskStep ==
  ASSUME PriceInv, NEW q \in Ask, NEW r \in PriceRequest, ask' = [ask EXCEPT ![q] = r],
         UNCHANGED service, batch.omitted \subseteq batch'.omitted,
         Proper(r, service.of, batch'.omitted)
  PROVE  ask' \in [Ask -> PriceRequest] /\ Asks'
<1>1. PriceType /\ Asks
  BY DEF PriceInv
<1>2. ask' \in [Ask -> PriceRequest]
  BY <1>1 DEF PriceType
<1>3. ASSUME NEW p \in Ask
      PROVE  Proper(ask'[p], service.of, batch'.omitted)
  <2>1. CASE p = q
    BY <1>1, <2>1 DEF PriceType
  <2>2. CASE p # q
    <3>1. ask'[p] = ask[p]
      BY <1>1, <2>2 DEF PriceType
    <3>2. Proper(ask[p], service.of, batch.omitted)
      BY <1>1 DEF Asks
    <3>. QED
      BY <3>1, <3>2, ProperStays
  <2>. QED
    BY <2>1, <2>2
<1>4. Asks'
  BY <1>3 DEF Asks
<1>. QED
  BY <1>2, <1>4

\* Nothing is told.
LEMMA UntoldStep ==
  ASSUME told' = Unanswered
  PROVE  told'.prices \in [Token -> Known] /\ PricesRecent'
<1>1. told'.prices = NoPrices
  BY DEF Unanswered
<1>. QED
  BY <1>1, IdleAsks DEF PricesRecent

\* An answer that is no older than it may be, by the service and by how it came.
LEMMA AnswerStep ==
  ASSUME PriceInv, NEW q \in Ask, NEW how, NEW prices \in [Token -> Known], Answer(q, how, prices),
         UNCHANGED service, batch.omitted \subseteq batch'.omitted,
         \A t \in Token : prices[t] # Null /\ how # "mixed" =>
           \/ service.of = "market" /\ prices[t] <= Race
           \/ service.of = "market" /\ how = "cached" /\ prices[t] <= Fresh - 1 + Race
           \/ service.of = "market" /\ how = "kept" /\ prices[t] <= Stale + Race - 1 + Race
           \/ /\ service.of = "fair" /\ how # "cached"
              /\ t \notin batch'.omitted => prices[t] <= Doubtful + Race + Slow
           \/ /\ service.of = "fair" /\ how = "cached"
              /\ t \notin batch'.omitted => prices[t] <= Fresh - 1 + Doubtful + Race + Slow + Race
           \/ service.of \in {"native", "balance"} /\ prices[t] <= Feed
           \/ /\ service.of \in {"native", "balance"} /\ how = "cached"
              /\ prices[t] <= Minute - 1 + Feed
  PROVE  /\ ask' \in [Ask -> PriceRequest] /\ Asks'
         /\ told'.prices \in [Token -> Known] /\ PricesRecent'
<1>1. told'.how = how /\ told'.prices = prices /\ ask' = [ask EXCEPT ![q] = Idle]
  BY DEF Answer
<1>2. ask' \in [Ask -> PriceRequest] /\ Asks'
  BY <1>1, IdleAsks, IdleIsProper, AskStep
<1>3. PricesRecent'
  <2>1. /\ Race \in Nat /\ Slow \in Nat /\ Fresh > 0 /\ Stale > 0 /\ Minute > 0 /\ Fresh \in Nat
        /\ Stale \in Nat /\ Minute \in Nat
    BY PriceAssumption
  <2>2. ASSUME NEW t \in Token, prices[t] # Null
        PROVE  prices[t] \in Nat
    BY <2>2 DEF Known
  <2>. QED
    BY <1>1, <2>1, <2>2, OldestType DEF PricesRecent
<1>. QED
  BY <1>1, <1>2, <1>3

LEMMA PricesFrame ==
  ASSUME PriceInv
  PROVE  /\ UNCHANGED <<service, cache>> => MarketCaches'
         /\ UNCHANGED <<service, cache>> /\ batch.omitted \subseteq batch'.omitted => FairCaches'
         /\ UNCHANGED batch => Batches' /\ batch.omitted \subseteq batch'.omitted
         /\ UNCHANGED <<native, published>> => Natives'
         /\ /\ UNCHANGED service /\ ask' \in [Ask -> PriceRequest]
            /\ told'.prices \in [Token -> Known]
            /\ UNCHANGED cache \/ cache' \in [Token -> [at : 0 .. Oldest, prices : [Token -> Known]]]
            /\ \/ UNCHANGED batch
               \/ batch' \in [at : 0 .. Doubtful + 1, prices : [Token -> Known], omitted : SUBSET Token]
            /\ \/ UNCHANGED native
               \/ native' \in [at : 0 .. Oldest, age : Known, whose : Token \cup {Null}]
            /\ UNCHANGED published \/ published' \in [left : Nat, age : Known]
            => PriceType'
<1>1. PriceType /\ MarketCaches /\ FairCaches /\ Batches /\ Natives
  BY DEF PriceInv
<1>2. UNCHANGED <<service, cache>> => MarketCaches'
  BY <1>1 DEF MarketCaches
<1>3. UNCHANGED <<service, cache>> /\ batch.omitted \subseteq batch'.omitted => FairCaches'
  BY <1>1 DEF FairCaches
<1>4. UNCHANGED batch => Batches' /\ batch.omitted \subseteq batch'.omitted
  BY <1>1 DEF Batches
<1>5. UNCHANGED <<native, published>> => Natives'
  BY <1>1 DEF Natives
<1>. QED
  BY <1>1, <1>2, <1>3, <1>4, <1>5 DEF PriceType

\* The market.
LEMMA MarketStep ==
  ASSUME PriceInv, NEW q \in Ask, NEW listed \in SUBSET Listed, NEW unlisted \in SUBSET Token,
         NEW found \in SUBSET Token,
         MarketAsk(q) \/ Apis(q, listed, unlisted) \/ OnChain(q, found) \/ MarketTimeout(q)
  PROVE  PriceInv'
<1>1. PriceType /\ Asks /\ MarketCaches
  BY DEF PriceInv
<1>2. UNCHANGED <<service, batch, native, published>> /\ batch.omitted \subseteq batch'.omitted
  BY DEF MarketAsk, Apis, OnChain, MarketTimeout
<1>3. ask[q] \in PriceRequest /\ Shared \in Token /\ Proper(ask[q], service.of, batch.omitted)
  BY <1>1, PriceAssumption DEF PriceType, Shared, Asks
<1>4. cache[Shared].at \in Nat /\ cache[Shared].prices \in [Token -> Known]
  BY <1>1, <1>3, OldestType DEF PriceType
<1>5. \A t \in Token : service.of = "market" /\ cache[Shared].prices[t] # Null =>
        cache[Shared].prices[t] \in Nat /\ cache[Shared].prices[t] <= cache[Shared].at + Race
  BY <1>1, <1>3, <1>4 DEF MarketCaches, Known
<1>6. CASE MarketAsk(q) /\ cache[Shared].at < Fresh
  <2>1. service.of = "market" /\ Answer(q, "cached", cache[Shared].prices) /\ UNCHANGED cache
    BY <1>6 DEF MarketAsk
  <2>2. \A t \in Token : cache[Shared].prices[t] # Null =>
          cache[Shared].prices[t] <= Fresh - 1 + Race
    BY <1>4, <1>5, <1>6, <2>1, OldestType
  <2>3. /\ ask' \in [Ask -> PriceRequest] /\ Asks'
        /\ told'.prices \in [Token -> Known] /\ PricesRecent'
    BY <1>2, <1>4, <2>1, <2>2, AnswerStep
  <2>. QED
    BY <1>2, <2>1, <2>3, PricesFrame DEF PriceInv
<1>7. CASE MarketAsk(q) /\ ~(cache[Shared].at < Fresh)
  <2>. DEFINE r == [Idle EXCEPT !.step = "apis"]
  <2>1. service.of = "market" /\ ask' = [ask EXCEPT ![q] = r] /\ told' = Unanswered /\ UNCHANGED cache
    BY <1>7 DEF MarketAsk
  <2>2. /\ r \in PriceRequest /\ r.step = "apis" /\ r.age = 0
        /\ \A t \in Token : r.got[t] = Null
    BY IdleAsks DEF PriceRequest, Idle
  <2>. HIDE DEF r
  <2>3. Proper(r, service.of, batch'.omitted)
    BY <2>1, <2>2, OldestType DEF Proper, InTime, Estimating
  <2>4. ask' \in [Ask -> PriceRequest] /\ Asks'
    BY <1>2, <2>1, <2>2, <2>3, AskStep
  <2>. QED
    BY <1>2, <2>1, <2>4, UntoldStep, PricesFrame DEF PriceInv
<1>8. CASE Apis(q, listed, unlisted)
  <2>. DEFINE now == [t \in Token |-> IF t \in listed \cup unlisted THEN 0 ELSE Null]
  <2>. DEFINE r == [ask[q] EXCEPT !.step = "chain", !.got = now]
  <2>1. /\ ask[q].step = "apis" /\ ask' = [ask EXCEPT ![q] = r] /\ told' = Unanswered
        /\ UNCHANGED cache
    BY <1>8 DEF Apis
  <2>2. now \in [Token -> Known] /\ \A t \in Token : now[t] # Null => now[t] = 0
    BY DEF Known
  <2>3. /\ r \in PriceRequest /\ r.step = "chain" /\ r.age = ask[q].age /\ r.got = now
    BY <1>3, <2>2 DEF PriceRequest
  <2>. HIDE DEF r, now
  <2>4. service.of = "market" /\ ask[q].age <= Race /\ ask[q].age \in Nat
    BY <1>3, <2>1 DEF Proper, InTime, PriceRequest
  <2>5. Proper(r, service.of, batch'.omitted)
    BY <2>2, <2>3, <2>4 DEF Proper, InTime, Estimating
  <2>6. ask' \in [Ask -> PriceRequest] /\ Asks'
    BY <1>2, <2>1, <2>3, <2>5, AskStep
  <2>. QED
    BY <1>2, <2>1, <2>6, UntoldStep, PricesFrame DEF PriceInv
<1>9. CASE OnChain(q, found)
  <2>. DEFINE prices == [t \in Token |->
         IF t \in {s \in Token : ask[q].got[s] = Null} \cap found THEN 0 ELSE ask[q].got[t]]
  <2>1. /\ ask[q].step = "chain" /\ Answer(q, "fetched", prices)
        /\ cache' = [cache EXCEPT ![Shared] = [at |-> 0, prices |-> prices]]
    BY <1>9 DEF OnChain
  <2>2. service.of = "market"
    BY <1>3, <2>1 DEF Proper
  <2>3. prices \in [Token -> Known] /\ \A t \in Token : prices[t] # Null => prices[t] <= Race
    <3>1. ask[q].got \in [Token -> Known] /\ ask[q].age \in Nat /\ ask[q].age <= Race
      BY <1>3, <2>1 DEF PriceRequest, Proper, InTime
    <3>2. prices \in [Token -> Known]
      BY <3>1 DEF Known
    <3>3. ASSUME NEW t \in Token, prices[t] # Null PROVE prices[t] <= Race
      <4>1. CASE ask[q].got[t] = Null
        BY <3>3, <4>1, OldestType
      <4>2. CASE ask[q].got[t] # Null
        <5>1. ask[q].got[t] \in Nat /\ ask[q].got[t] <= ask[q].age
          BY <1>3, <2>1, <3>1, <4>2 DEF Known, Proper
        <5>. QED
          BY <3>1, <4>2, <5>1, OldestType
      <4>. QED
        BY <4>1, <4>2
    <3>. QED
      BY <3>2, <3>3
  <2>. HIDE DEF prices
  <2>4. /\ ask' \in [Ask -> PriceRequest] /\ Asks'
        /\ told'.prices \in [Token -> Known] /\ PricesRecent'
    BY <1>2, <2>1, <2>2, <2>3, AnswerStep
  <2>5. cache' \in [Token -> [at : 0 .. Oldest, prices : [Token -> Known]]]
    <3>1. [at |-> 0, prices |-> prices] \in [at : 0 .. Oldest, prices : [Token -> Known]]
      BY <2>3, OldestType
    <3>. QED
      BY <1>1, <2>1, <3>1 DEF PriceType
  <2>6. MarketCaches'
    <3>1. ASSUME NEW s \in Token, NEW t \in Token
          PROVE  cache'[s].prices[t] # Null => cache'[s].prices[t] <= cache'[s].at + Race
      <4>1. CASE s = Shared
        <5>1. cache'[s] = [at |-> 0, prices |-> prices]
          BY <1>1, <2>1, <4>1 DEF PriceType
        <5>. QED
          BY <2>3, <5>1, OldestType
      <4>2. CASE s # Shared
        <5>1. cache'[s] = cache[s]
          BY <1>1, <2>1, <4>2 DEF PriceType
        <5>. QED
          BY <1>1, <2>2, <5>1 DEF MarketCaches
      <4>. QED
        BY <4>1, <4>2
    <3>. QED
      BY <3>1 DEF MarketCaches
  <2>7. FairCaches'
    BY <1>2, <2>2 DEF FairCaches
  <2>. QED
    BY <1>2, <2>4, <2>5, <2>6, <2>7, PricesFrame DEF PriceInv
<1>10. CASE MarketTimeout(q)
  <2>. DEFINE prices == IF cache[Shared].at < Stale + Race THEN cache[Shared].prices ELSE NoPrices
  <2>1. ask[q].step \in {"apis", "chain"} /\ Answer(q, "kept", prices) /\ UNCHANGED cache
    BY <1>10 DEF MarketTimeout
  <2>2. service.of = "market"
    BY <1>3, <2>1 DEF Proper
  <2>3. prices \in [Token -> Known] /\ \A t \in Token : prices[t] # Null =>
          prices[t] <= Stale + Race - 1 + Race
    <3>1. CASE cache[Shared].at < Stale + Race
      BY <1>4, <1>5, <2>2, <3>1, OldestType
    <3>2. CASE ~(cache[Shared].at < Stale + Race)
      BY <3>2, IdleAsks
    <3>. QED
      BY <3>1, <3>2
  <2>. HIDE DEF prices
  <2>4. /\ ask' \in [Ask -> PriceRequest] /\ Asks'
        /\ told'.prices \in [Token -> Known] /\ PricesRecent'
    BY <1>2, <2>1, <2>2, <2>3, AnswerStep
  <2>. QED
    BY <1>2, <2>1, <2>4, PricesFrame DEF PriceInv
<1>. QED
  BY <1>6, <1>7, <1>8, <1>9, <1>10

\* An estimate is told, or held for the page.
LEMMA MadeStep ==
  ASSUME PriceInv, NEW q \in Ask, NEW whole \in BOOLEAN, NEW how \in {"cached", "fetched"},
         NEW prices \in [Token -> Known], Made(q, whole, how, prices), service.of = "fair",
         UNCHANGED service, batch.omitted \subseteq batch'.omitted,
         whole => ask[q].age <= Race,
         \A t \in Token \ batch'.omitted : prices[t] # Null =>
           /\ how = "fetched" => prices[t] <= ask[q].age + Doubtful
           /\ how = "cached" => prices[t] <= Fresh - 1 + Doubtful + Race + Slow
  PROVE  /\ ask' \in [Ask -> PriceRequest] /\ Asks'
         /\ told'.prices \in [Token -> Known] /\ PricesRecent'
<1>1. ask[q] \in PriceRequest /\ ask[q].age \in Nat
  BY DEF PriceInv, PriceType, PriceRequest
<1>2. ask[q].age <= Race + Slow
  <2>1. InTime(ask[q])
    BY DEF PriceInv, Asks, Proper
  <2>. QED
    BY <1>1, <2>1, OldestType DEF InTime
<1>3. \A t \in Token : prices[t] # Null => prices[t] \in Nat
  BY DEF Known
<1>4. CASE whole
  <2>. DEFINE r == [Idle EXCEPT !.step = how, !.age = ask[q].age, !.got = prices]
  <2>1. ask' = [ask EXCEPT ![q] = r] /\ told' = Unanswered
    BY <1>4 DEF Made
  <2>2. r \in PriceRequest /\ r.step = how /\ r.age = ask[q].age /\ r.got = prices
    BY <1>1, IdleAsks DEF PriceRequest, Idle
  <2>. HIDE DEF r
  <2>3. InTime(r)
    BY <1>4, <2>2 DEF InTime
  <2>4. ASSUME NEW t \in Token, prices[t] # Null
        PROVE  /\ how = "fetched" /\ t \notin batch'.omitted => prices[t] <= ask[q].age + Doubtful
               /\ how = "cached" /\ t \notin batch'.omitted =>
                    prices[t] <= ask[q].age + (Fresh - 1 + Doubtful + Race + Slow)
    BY <1>1, <1>3, <2>4, OldestType
  <2>5. Proper(r, service.of, batch'.omitted)
    BY <2>2, <2>3, <2>4 DEF Proper, Estimating
  <2>6. ask' \in [Ask -> PriceRequest] /\ Asks'
    BY <2>1, <2>2, <2>5, AskStep
  <2>. QED
    BY <2>1, <2>6, UntoldStep
<1>5. CASE ~whole
  <2>1. Answer(q, how, prices)
    BY <1>5 DEF Made
  <2>2. ASSUME NEW t \in Token, prices[t] # Null
        PROVE  \/ /\ service.of = "fair" /\ how # "cached"
                  /\ t \notin batch'.omitted => prices[t] <= Doubtful + Race + Slow
               \/ /\ service.of = "fair" /\ how = "cached"
                  /\ t \notin batch'.omitted => prices[t] <= Fresh - 1 + Doubtful + Race + Slow + Race
    BY <1>1, <1>2, <1>3, <2>2, OldestType
  <2>. QED
    BY <2>1, <2>2, AnswerStep
<1>. QED
  BY <1>4, <1>5

\* The oldest of some ages, if any.
OldestOf(S) == IF S = {} THEN Null ELSE CHOOSE x \in S : \A y \in S : y <= x

\* The older of two ages, of which either may be missing.
LEMMA OlderOfTwo ==
  ASSUME NEW a \in Known, NEW b \in Known, NEW limit \in Nat,
         a # Null => a <= limit, b # Null => b <= limit
  PROVE  LET oldest == OldestOf({a, b} \ {Null})
         IN  oldest \in Known /\ (oldest # Null => oldest <= limit)
<1>. DEFINE S == {a, b} \ {Null}
<1>1. \A x \in S : x \in Nat /\ (x = a \/ x = b)
  BY DEF Known
<1>2. CASE S = {}
  BY <1>2 DEF Known, OldestOf
<1>3. CASE S # {}
  <2>1. \E x \in S : \A y \in S : y <= x
    <3>1. CASE a \in S /\ (b \in S => b <= a)
      BY <1>1, <3>1
    <3>2. CASE b \in S /\ (a \in S => a <= b)
      BY <1>1, <3>2
    <3>. QED
      BY <1>1, <1>3, <3>1, <3>2
  <2>2. (CHOOSE x \in S : \A y \in S : y <= x) \in S
    BY <2>1
  <2>. QED
    BY <1>1, <1>3, <2>2 DEF Known, OldestOf
<1>. QED
  BY <1>2, <1>3

LEMMA OldestKnown ==
  ASSUME NEW a \in Known, NEW b \in Known
  PROVE  OldestOf({a, b} \ {Null}) \in Known
<1>1. PICK limit \in Nat : (a # Null => a <= limit) /\ (b # Null => b <= limit)
  <2>1. CASE a = Null
    BY <2>1 DEF Known
  <2>2. CASE b = Null
    BY <2>2 DEF Known
  <2>3. CASE a # Null /\ b # Null
    <3>1. a \in Nat /\ b \in Nat
      BY <2>3 DEF Known
    <3>. QED
      BY <3>1
  <2>. QED
    BY <2>1, <2>2, <2>3
<1>. QED
  BY <1>1, OlderOfTwo

\* A source that is not in doubt when it is read.
LEMMA SettledStep ==
  ASSUME PriceInv, NEW q \in Ask, NEW source, NEW age \in Known, Settled(q, source, age),
         UNCHANGED service, batch.omitted \subseteq batch'.omitted,
         ask[q].token \notin batch'.omitted /\ age # Null => age <= Doubtful
  PROVE  /\ ask' \in [Ask -> PriceRequest] /\ Asks'
         /\ told'.prices \in [Token -> Known] /\ PricesRecent'
         /\ cache' \in [Token -> [at : 0 .. Oldest, prices : [Token -> Known]]]
         /\ MarketCaches' /\ FairCaches'
<1>1. PriceType /\ Asks /\ FairCaches
  BY DEF PriceInv
<1>2. ask[q] \in PriceRequest /\ Proper(ask[q], service.of, batch.omitted)
  BY <1>1 DEF PriceType, Asks
<1>. DEFINE t == ask[q].token
<1>. DEFINE ages == {ask[q].got[t], age} \ {Null}
<1>. DEFINE oldest == OldestOf(ages)
<1>. DEFINE got == [NoPrices EXCEPT ![t] = oldest]
<1>3. /\ ask[q].step \in Estimating /\ source \in ask[q].left
      /\ IF ask[q].left # {source}
           THEN /\ ask' = [ask EXCEPT ![q].left = ask[q].left \ {source}, ![q].got = got]
                /\ told' = Unanswered /\ UNCHANGED cache
           ELSE /\ cache' = [cache EXCEPT ![t] = [at |-> 0, prices |-> got]]
                /\ IF ask[q].step = "late"
                     THEN ask' = [ask EXCEPT ![q] = Idle] /\ told' = Unanswered
                     ELSE Made(q, ask[q].step = "page", "fetched", got)
  BY Zenon DEF Settled, OldestOf
<1>4. /\ service.of = "fair" /\ t \in Token /\ InTime(ask[q]) /\ ask[q].age \in Nat
      /\ ask[q].got \in [Token -> Known] /\ ask[q].left \in SUBSET {"cg", "dex", "db"}
      /\ t \notin batch.omitted /\ ask[q].got[t] # Null => ask[q].got[t] <= ask[q].age + Doubtful
  BY <1>2, <1>3 DEF Proper, PriceRequest
<1>5. ask[q].age + Doubtful \in Nat /\ ask[q].age <= Race + Slow
      /\ (ask[q].step = "page" => ask[q].age <= Race)
  BY <1>4, OldestType DEF InTime
<1>6. /\ oldest \in Known
      /\ t \notin batch'.omitted /\ oldest # Null => oldest <= ask[q].age + Doubtful
  <2>1. ask[q].got[t] \in Known
    BY <1>4
  <2>2. t \notin batch'.omitted =>
          /\ ask[q].got[t] # Null => ask[q].got[t] <= ask[q].age + Doubtful
          /\ age # Null => age <= ask[q].age + Doubtful
    BY <1>4, OldestType DEF Known
  <2>3. CASE t \notin batch'.omitted
    BY <1>5, <2>1, <2>2, <2>3, OlderOfTwo
  <2>4. CASE t \in batch'.omitted
    BY <2>1, <2>4, OldestKnown
  <2>. QED
    BY <2>3, <2>4
<1>. HIDE DEF oldest
<1>7. /\ got \in [Token -> Known]
      /\ \A x \in Token : got[x] # Null => x = t /\ got[x] = oldest
  BY <1>4, <1>6, IdleAsks
<1>8. \A x \in Token \ batch'.omitted : got[x] # Null => got[x] <= ask[q].age + Doubtful
  BY <1>6, <1>7
<1>. HIDE DEF got, t
<1>9. MarketCaches'
  BY <1>4 DEF MarketCaches
<1>10. CASE ask[q].left # {source}
  <2>. DEFINE r == [ask[q] EXCEPT !.left = ask[q].left \ {source}, !.got = got]
  <2>1. ask' = [ask EXCEPT ![q] = r] /\ told' = Unanswered /\ UNCHANGED cache
    BY <1>1, <1>3, <1>10 DEF PriceType
  <2>2. /\ r \in PriceRequest /\ r.step = ask[q].step /\ r.age = ask[q].age /\ r.got = got
        /\ r.token = ask[q].token
    BY <1>2, <1>4, <1>7 DEF PriceRequest
  <2>. HIDE DEF r
  <2>3. InTime(r) /\ r.token \in Token
    BY <1>4, <2>2 DEF InTime, t
  <2>4. Proper(r, service.of, batch'.omitted)
    BY <1>3, <1>4, <1>8, <2>2, <2>3 DEF Proper, Estimating
  <2>5. ask' \in [Ask -> PriceRequest] /\ Asks'
    BY <2>1, <2>2, <2>4, AskStep
  <2>6. cache' \in [Token -> [at : 0 .. Oldest, prices : [Token -> Known]]] /\ FairCaches'
    BY <1>1, <2>1, PricesFrame DEF PriceType
  <2>. QED
    BY <1>9, <2>1, <2>5, <2>6, UntoldStep
<1>11. CASE ask[q].left = {source}
  <2>1. cache' = [cache EXCEPT ![t] = [at |-> 0, prices |-> got]]
    BY <1>3, <1>11
  <2>2. /\ ask' \in [Ask -> PriceRequest] /\ Asks'
        /\ told'.prices \in [Token -> Known] /\ PricesRecent'
    <3>1. CASE ask[q].step = "late"
      <4>1. ask' = [ask EXCEPT ![q] = Idle] /\ told' = Unanswered
        BY <1>3, <1>11, <3>1
      <4>2. ask' \in [Ask -> PriceRequest] /\ Asks'
        BY <4>1, IdleAsks, IdleIsProper, AskStep
      <4>. QED
        BY <4>1, <4>2, UntoldStep
    <3>2. CASE ask[q].step # "late"
      <4>. DEFINE whole == ask[q].step = "page"
      <4>1. Made(q, whole, "fetched", got) /\ whole \in BOOLEAN
        BY <1>3, <1>11, <3>2
      <4>2. whole => ask[q].age <= Race
        BY <1>5
      <4>. HIDE DEF whole
      <4>. QED
        BY <1>4, <1>7, <1>8, <4>1, <4>2, MadeStep
    <3>. QED
      BY <3>1, <3>2
  <2>3. [at |-> 0, prices |-> got] \in [at : 0 .. Oldest, prices : [Token -> Known]]
    BY <1>7, OldestType
  <2>4. cache' \in [Token -> [at : 0 .. Oldest, prices : [Token -> Known]]]
    BY <1>1, <1>4, <2>1, <2>3 DEF PriceType
  <2>5. ASSUME NEW s \in Token, NEW x \in Token, x \notin batch'.omitted, cache'[s].prices[x] # Null
        PROVE  cache'[s].prices[x] <= cache'[s].at + (Doubtful + Race + Slow)
    <3>1. CASE s = t
      <4>1. cache'[s].at = 0 /\ cache'[s].prices = got
        BY <1>1, <2>1, <3>1 DEF PriceType
      <4>2. got[x] \in Nat /\ got[x] <= ask[q].age + Doubtful
        BY <1>7, <1>8, <2>5, <4>1 DEF Known
      <4>. QED
        BY <1>4, <1>5, <4>1, <4>2, OldestType
    <3>2. CASE s # t
      <4>1. cache'[s] = cache[s]
        BY <1>1, <2>1, <3>2 DEF PriceType
      <4>. QED
        BY <1>1, <1>4, <2>5, <4>1 DEF FairCaches
    <3>. QED
      BY <3>1, <3>2
  <2>6. FairCaches'
    BY <2>5 DEF FairCaches
  <2>. QED
    BY <1>9, <2>2, <2>4, <2>6
<1>. QED
  BY <1>10, <1>11

\* Estimates.
LEMMA FairStep ==
  ASSUME PriceInv, NEW q \in Ask, NEW t \in Token, NEW whole \in BOOLEAN, NEW priced \in SUBSET Listed,
         NEW ok \in BOOLEAN, NEW found \in BOOLEAN, NEW age \in 0 .. (Doubtful + 1),
         \/ FairAsk(q, t, whole) \/ CoinGecko(q, priced, ok) \/ DexScreener(q, found)
         \/ DbSnapshot(q, age) \/ FairTimeout(q) \/ PageAnswered(q)
  PROVE  PriceInv'
<1>1. PriceType /\ Asks /\ FairCaches /\ Batches
  BY DEF PriceInv
<1>2. UNCHANGED <<service, native, published>>
  BY DEF FairAsk, CoinGecko, DexScreener, DbSnapshot, FairTimeout, PageAnswered
<1>3. /\ ask[q] \in PriceRequest /\ Proper(ask[q], service.of, batch.omitted)
      /\ batch.at \in 0 .. Doubtful + 1 /\ batch.prices \in [Token -> Known]
      /\ batch.omitted \in SUBSET Token
  BY <1>1 DEF PriceType, Asks
<1>4. CASE FairAsk(q, t, whole) /\ cache[t].at < Fresh
  <2>1. /\ service.of = "fair" /\ Made(q, whole, "cached", cache[t].prices)
        /\ UNCHANGED <<cache, batch>> /\ ask[q].step = "idle"
    BY <1>4 DEF FairAsk
  <2>2. cache[t].at \in Nat /\ cache[t].prices \in [Token -> Known]
    BY <1>1, OldestType DEF PriceType
  <2>3. ASSUME NEW u \in Token \ batch'.omitted, cache[t].prices[u] # Null
        PROVE  cache[t].prices[u] <= Fresh - 1 + Doubtful + Race + Slow
    <3>1. cache[t].prices[u] \in Nat
      BY <2>2, <2>3 DEF Known
    <3>2. cache[t].prices[u] <= cache[t].at + (Doubtful + Race + Slow)
      BY <1>1, <2>1, <2>3 DEF FairCaches
    <3>. QED
      BY <1>4, <2>2, <3>1, <3>2, OldestType
  <2>4. ask[q].age <= Race
    BY <1>3, <2>1 DEF Proper, InTime
  <2>5. /\ ask' \in [Ask -> PriceRequest] /\ Asks'
        /\ told'.prices \in [Token -> Known] /\ PricesRecent'
    BY <1>2, <2>1, <2>2, <2>3, <2>4, MadeStep
  <2>. QED
    BY <1>2, <2>1, <2>5, PricesFrame DEF PriceInv
<1>5. CASE FairAsk(q, t, whole) /\ ~(cache[t].at < Fresh)
  <2>. DEFINE kept == t \in Listed /\ batch.at <= Batch
  <2>. DEFINE got == IF kept THEN [NoPrices EXCEPT ![t] = batch.prices[t]] ELSE NoPrices
  <2>. DEFINE step == IF whole THEN "page" ELSE "token"
  <2>. DEFINE left == {"db"} \cup (IF t \notin Listed THEN {"dex"} ELSE IF kept THEN {} ELSE {"cg"})
  <2>. DEFINE r == [step |-> step, token |-> t, age |-> 0, got |-> got, left |-> left]
  <2>1. /\ service.of = "fair" /\ ask' = [ask EXCEPT ![q] = r] /\ told' = Unanswered
        /\ UNCHANGED <<cache, batch>>
    BY <1>5 DEF FairAsk
  <2>2. step \in {"page", "token"} /\ left \in SUBSET {"cg", "dex", "db"}
    OBVIOUS
  <2>3. /\ got \in [Token -> Known]
        /\ \A u \in Token \ batch.omitted : got[u] # Null => got[u] <= 0 + Doubtful
    <3>1. CASE kept
      <4>1. batch.prices[t] \in Known /\ batch.at \in Nat /\ batch.at <= Doubtful
        BY <1>3, <3>1, PriceAssumption
      <4>2. t \notin batch.omitted /\ batch.prices[t] # Null => batch.prices[t] <= batch.at
        BY <1>1 DEF Batches
      <4>3. got = [NoPrices EXCEPT ![t] = batch.prices[t]]
        BY <3>1
      <4>4. \A u \in Token : got[u] # Null => u = t /\ got[u] = batch.prices[t]
        BY <4>3, IdleAsks
      <4>. QED
        BY <4>1, <4>2, <4>3, <4>4, IdleAsks, OldestType DEF Known
    <3>2. CASE ~kept
      BY <3>2, IdleAsks
    <3>. QED
      BY <3>1, <3>2
  <2>. HIDE DEF got, step, left, kept
  <2>4. r \in PriceRequest /\ r.step = step /\ r.age = 0 /\ r.token = t /\ r.got = got
    BY <2>2, <2>3 DEF PriceRequest, Estimating
  <2>. HIDE DEF r
  <2>5. InTime(r)
    BY <2>2, <2>4, OldestType DEF InTime
  <2>6. Proper(r, service.of, batch'.omitted)
    BY <2>1, <2>2, <2>3, <2>4, <2>5 DEF Proper, Estimating
  <2>7. ask' \in [Ask -> PriceRequest] /\ Asks'
    BY <1>2, <2>1, <2>4, <2>6, AskStep
  <2>. QED
    BY <1>2, <2>1, <2>7, UntoldStep, PricesFrame DEF PriceInv
<1>6. CASE CoinGecko(q, priced, ok)
  <2>. DEFINE now == IF batch'.at <= Doubtful THEN batch'.prices[ask[q].token] ELSE Null
  <2>. DEFINE ages == [u \in Token |->
         IF u \in priced THEN 0 ELSE IF batch.prices[u] = Null THEN Null ELSE Oldest]
  <2>1. /\ Settled(q, "cg", now)
        /\ batch' = IF ~ok THEN batch
                    ELSE [at |-> 0, prices |-> ages, omitted |-> batch.omitted \cup (Listed \ priced)]
    BY <1>6 DEF CoinGecko
  <2>2. service.of = "fair" /\ ask[q].token \in Token
    BY <1>3, <2>1 DEF Settled, Proper
  <2>3. /\ batch' \in [at : 0 .. Doubtful + 1, prices : [Token -> Known], omitted : SUBSET Token]
        /\ batch.omitted \subseteq batch'.omitted /\ Batches'
    <3>1. CASE ~ok
      BY <1>1, <2>1, <3>1 DEF PriceType, Batches
    <3>2. CASE ok
      <4>1. /\ batch'.at = 0 /\ batch'.prices = ages
            /\ batch'.omitted = batch.omitted \cup (Listed \ priced)
            /\ batch' = [at |-> 0, prices |-> ages, omitted |-> batch.omitted \cup (Listed \ priced)]
        BY <2>1, <3>2
      <4>2. ages \in [Token -> Known] /\ batch.omitted \cup (Listed \ priced) \in SUBSET Token
        BY <1>3, OldestType, PriceAssumption DEF Known
      <4>3. \A u \in Token \ batch'.omitted : ages[u] # Null => u \in Listed /\ ages[u] = 0
        BY <1>1, <4>1 DEF Batches
      <4>. HIDE DEF ages
      <4>4. batch' \in [at : 0 .. Doubtful + 1, prices : [Token -> Known], omitted : SUBSET Token]
        BY <4>1, <4>2, OldestType
      <4>5. Batches'
        BY <4>1, <4>3 DEF Batches
      <4>. QED
        BY <4>1, <4>4, <4>5
    <3>. QED
      BY <3>1, <3>2
  <2>4. now \in Known /\ (ask[q].token \notin batch'.omitted /\ now # Null => now <= Doubtful)
    <3>1. batch'.prices[ask[q].token] \in Known /\ batch'.at \in Nat
      BY <2>2, <2>3, OldestType
    <3>2. CASE batch'.at <= Doubtful
      <4>1. ask[q].token \notin batch'.omitted /\ now # Null => now <= batch'.at
        BY <2>2, <2>3, <3>2 DEF Batches
      <4>. QED
        BY <3>1, <3>2, <4>1, OldestType DEF Known
    <3>3. CASE ~(batch'.at <= Doubtful)
      BY <3>3 DEF Known
    <3>. QED
      BY <3>2, <3>3
  <2>. HIDE DEF now
  <2>5. /\ ask' \in [Ask -> PriceRequest] /\ Asks'
        /\ told'.prices \in [Token -> Known] /\ PricesRecent'
        /\ cache' \in [Token -> [at : 0 .. Oldest, prices : [Token -> Known]]]
        /\ MarketCaches' /\ FairCaches'
    BY <1>2, <2>1, <2>3, <2>4, SettledStep
  <2>. QED
    BY <1>2, <2>3, <2>5, PricesFrame DEF PriceInv
<1>7. CASE DexScreener(q, found) \/ DbSnapshot(q, age)
  <2>1. PICK source, now : /\ now \in Known /\ (now # Null => now <= Doubtful)
                           /\ Settled(q, source, now) /\ UNCHANGED batch
    <3>1. CASE DexScreener(q, found)
      <4>. DEFINE now == IF found THEN 0 ELSE Null
      <4>1. now \in Known /\ (now # Null => now <= Doubtful)
        BY OldestType DEF Known
      <4>2. Settled(q, "dex", now) /\ UNCHANGED batch
        BY <3>1 DEF DexScreener
      <4>. HIDE DEF now
      <4>. QED
        BY <4>1, <4>2
    <3>2. CASE DbSnapshot(q, age)
      <4>. DEFINE now == IF age <= Doubtful THEN age ELSE Null
      <4>1. now \in Known /\ (now # Null => now <= Doubtful)
        BY OldestType DEF Known
      <4>2. Settled(q, "db", now) /\ UNCHANGED batch
        BY <3>2 DEF DbSnapshot
      <4>. HIDE DEF now
      <4>. QED
        BY <4>1, <4>2
    <3>. QED
      BY <1>7, <3>1, <3>2
  <2>2. batch.omitted \subseteq batch'.omitted
    BY <2>1
  <2>3. /\ ask' \in [Ask -> PriceRequest] /\ Asks'
        /\ told'.prices \in [Token -> Known] /\ PricesRecent'
        /\ cache' \in [Token -> [at : 0 .. Oldest, prices : [Token -> Known]]]
        /\ MarketCaches' /\ FairCaches'
    BY <1>2, <2>1, <2>2, SettledStep
  <2>. QED
    BY <1>2, <2>1, <2>3, PricesFrame DEF PriceInv
<1>8. CASE FairTimeout(q)
  <2>. DEFINE r == [ask[q] EXCEPT !.step = "late"]
  <2>1. /\ ask[q].step = "page" /\ ask' = [ask EXCEPT ![q] = r]
        /\ told'.how = "kept" /\ told'.prices = cache[ask[q].token].prices
        /\ UNCHANGED <<cache, batch>>
    BY <1>1, <1>8 DEF FairTimeout, PriceType
  <2>2. service.of = "fair" /\ ask[q].token \in Token /\ ask[q].age <= Race /\ ask[q].age \in Nat
    BY <1>3, <2>1 DEF Proper, InTime, Estimating, PriceRequest
  <2>3. /\ r \in PriceRequest /\ r.step = "late" /\ r.token = ask[q].token
        /\ r.age = ask[q].age /\ r.got = ask[q].got
    BY <1>3 DEF PriceRequest, Estimating
  <2>. HIDE DEF r
  <2>4. InTime(r)
    BY <2>2, <2>3, OldestType DEF InTime
  <2>5. Proper(r, service.of, batch'.omitted)
    BY <1>3, <2>1, <2>2, <2>3, <2>4 DEF Proper, Estimating
  <2>6. ask' \in [Ask -> PriceRequest] /\ Asks'
    BY <1>2, <2>1, <2>3, <2>5, AskStep
  <2>7. told'.prices \in [Token -> Known]
    BY <1>1, <2>1, <2>2 DEF PriceType
  <2>8. PricesRecent'
    BY <1>2, <2>1, <2>2 DEF PricesRecent
  <2>. QED
    BY <1>2, <2>1, <2>6, <2>7, <2>8, PricesFrame DEF PriceInv
<1>9. CASE PageAnswered(q)
  <2>. DEFINE how == ask[q].step
  <2>. DEFINE prices == ask[q].got
  <2>1. how \in {"cached", "fetched"} /\ Answer(q, how, prices) /\ UNCHANGED <<cache, batch>>
    BY <1>9 DEF PageAnswered
  <2>2. service.of = "fair" /\ ask[q].age <= Race /\ ask[q].age \in Nat /\ prices \in [Token -> Known]
    BY <1>3, <2>1 DEF Proper, InTime, PriceRequest
  <2>3. ASSUME NEW u \in Token, prices[u] # Null
        PROVE  \/ /\ service.of = "fair" /\ how # "cached"
                  /\ u \notin batch'.omitted => prices[u] <= Doubtful + Race + Slow
               \/ /\ service.of = "fair" /\ how = "cached"
                  /\ u \notin batch'.omitted => prices[u] <= Fresh - 1 + Doubtful + Race + Slow + Race
    <3>1. prices[u] \in Nat
      BY <2>2, <2>3 DEF Known
    <3>2. /\ how = "fetched" /\ u \notin batch.omitted => prices[u] <= ask[q].age + Doubtful
          /\ how = "cached" /\ u \notin batch.omitted =>
               prices[u] <= ask[q].age + (Fresh - 1 + Doubtful + Race + Slow)
      BY <1>3, <2>1, <2>3 DEF Proper
    <3>. QED
      BY <2>1, <2>2, <3>1, <3>2, OldestType
  <2>. HIDE DEF how, prices
  <2>4. /\ ask' \in [Ask -> PriceRequest] /\ Asks'
        /\ told'.prices \in [Token -> Known] /\ PricesRecent'
    BY <1>2, <2>1, <2>2, <2>3, AnswerStep
  <2>. QED
    BY <1>2, <2>1, <2>4, PricesFrame DEF PriceInv
<1>. QED
  BY <1>4, <1>5, <1>6, <1>7, <1>8, <1>9

\* The price of AVAX.
LEMMA NativeStep ==
  ASSUME PriceInv, NEW q \in Ask, NEW t \in Token, NEW age \in 0 .. Feed, NEW reached \in BOOLEAN,
         NativeAsk(q, t) \/ BalanceAsk(q, t) \/ NativeAnswered(q, age, reached) \/ NativeFails(q)
  PROVE  PriceInv'
<1>1. PriceType /\ Asks /\ MarketCaches /\ FairCaches /\ Batches /\ Natives /\ PricesRecent
  BY DEF PriceInv
<1>2. UNCHANGED <<service, cache, batch>> /\ batch.omitted \subseteq batch'.omitted
  BY DEF NativeAsk, BalanceAsk, NativeWanted, NativeAnswered, NativeFails
<1>3. /\ ask[q] \in PriceRequest /\ native.age \in Known /\ native.at \in Nat
      /\ \A u, a : a \in Known => [NoPrices EXCEPT ![u] = a] \in [Token -> Known]
  <2>1. ask[q] \in PriceRequest /\ native.age \in Known /\ native.at \in Nat
    BY <1>1, OldestType DEF PriceType
  <2>. QED
    BY <2>1, IdleAsks
<1>4. CASE NativeAsk(q, t) \/ BalanceAsk(q, t)
  <2>1. service.of \in {"native", "balance"} /\ NativeWanted(q, t)
    BY <1>4 DEF NativeAsk, BalanceAsk
  <2>2. CASE native.at < Minute
    <3>. DEFINE how == IF native.whose = t THEN "cached" ELSE "mixed"
    <3>. DEFINE prices == [NoPrices EXCEPT ![t] = native.age]
    <3>1. Answer(q, how, prices) /\ UNCHANGED <<native, published>>
      BY <2>1, <2>2 DEF NativeWanted
    <3>2. how \in {"cached", "mixed"}
      OBVIOUS
    <3>3. ASSUME NEW u \in Token, prices[u] # Null PROVE prices[u] <= Minute - 1 + Feed
      <4>1. prices[u] = native.age
        BY <3>3, IdleAsks
      <4>2. native.age \in Nat /\ native.age <= native.at + Feed
        BY <1>1, <1>3, <3>3, <4>1 DEF Natives, Known
      <4>. QED
        BY <1>3, <2>2, <4>1, <4>2, OldestType
    <3>4. prices \in [Token -> Known]
      BY <1>3
    <3>. HIDE DEF how, prices
    <3>5. /\ ask' \in [Ask -> PriceRequest] /\ Asks'
          /\ told'.prices \in [Token -> Known] /\ PricesRecent'
      BY <1>2, <2>1, <3>1, <3>2, <3>3, <3>4, AnswerStep
    <3>. QED
      BY <1>2, <3>1, <3>5, PricesFrame DEF PriceInv
  <2>3. CASE ~(native.at < Minute)
    <3>. DEFINE r == [Idle EXCEPT !.step = "native", !.token = t]
    <3>1. ask' = [ask EXCEPT ![q] = r] /\ told' = Unanswered /\ UNCHANGED <<native, published>>
      BY <2>1, <2>3 DEF NativeWanted
    <3>2. /\ r \in PriceRequest /\ r.step = "native" /\ r.age = 0
          /\ \A u \in Token : r.got[u] = Null
      BY IdleAsks DEF PriceRequest, Idle
    <3>. HIDE DEF r
    <3>3. Proper(r, service.of, batch'.omitted)
      BY <2>1, <3>2, OldestType DEF Proper, InTime, Estimating
    <3>4. ask' \in [Ask -> PriceRequest] /\ Asks'
      BY <1>2, <3>1, <3>2, <3>3, AskStep
    <3>. QED
      BY <1>2, <3>1, <3>4, UntoldStep, PricesFrame DEF PriceInv
  <2>. QED
    BY <2>2, <2>3
<1>5. CASE NativeAnswered(q, age, reached)
  <2>. DEFINE prices == [NoPrices EXCEPT ![ask[q].token] = age]
  <2>1. /\ ask[q].step = "native" /\ Answer(q, "fetched", prices)
        /\ native' = [at |-> 0, age |-> age, whose |-> ask[q].token]
        /\ published' = IF reached THEN [left |-> 2 * Minute, age |-> age] ELSE published
    BY <1>5 DEF NativeAnswered
  <2>2. service.of \in {"native", "balance"} /\ age \in Nat /\ age <= Feed /\ age \in Known
    BY <1>1, <2>1, OldestType DEF Asks, Proper, Known
  <2>3. ask[q].token \in Token \cup {Null}
    BY <1>3 DEF PriceRequest
  <2>4. prices \in [Token -> Known] /\ \A u \in Token : prices[u] # Null => prices[u] <= Feed
    BY <1>3, <2>2, <2>3, IdleAsks
  <2>. HIDE DEF prices
  <2>5. /\ ask' \in [Ask -> PriceRequest] /\ Asks'
        /\ told'.prices \in [Token -> Known] /\ PricesRecent'
    BY <1>2, <2>1, <2>2, <2>4, AnswerStep
  <2>6. /\ native' \in [at : 0 .. Oldest, age : Known, whose : Token \cup {Null}]
        /\ native'.at = 0 /\ native'.age = age
    BY <2>1, <2>2, <2>3, OldestType
  <2>7. /\ UNCHANGED published \/ published' \in [left : Nat, age : Known]
        /\ published'.age # Null =>
             published'.left > 0 /\ published'.age + published'.left <= 2 * Minute + Feed
    <3>1. CASE reached
      <4>1. published' = [left |-> 2 * Minute, age |-> age] /\ 2 * Minute \in Nat /\ 2 * Minute > 0
        BY <2>1, <3>1, PriceAssumption
      <4>. QED
        BY <2>2, <4>1, OldestType
    <3>2. CASE ~reached
      BY <1>1, <2>1, <3>2 DEF Natives
    <3>. QED
      BY <3>1, <3>2
  <2>8. Natives'
    BY <2>2, <2>6, <2>7, OldestType DEF Natives
  <2>. QED
    BY <1>2, <2>5, <2>6, <2>7, <2>8, PricesFrame DEF PriceInv
<1>6. CASE NativeFails(q)
  <2>. DEFINE prices == [NoPrices EXCEPT ![ask[q].token] = native.age]
  <2>1. Answer(q, "mixed", prices) /\ UNCHANGED <<native, published>>
    BY <1>6 DEF NativeFails
  <2>2. prices \in [Token -> Known]
    BY <1>3 DEF PriceRequest
  <2>. HIDE DEF prices
  <2>3. /\ ask' \in [Ask -> PriceRequest] /\ Asks'
        /\ told'.prices \in [Token -> Known] /\ PricesRecent'
    BY <1>2, <2>1, <2>2, AnswerStep
  <2>. QED
    BY <1>2, <2>1, <2>3, PricesFrame DEF PriceInv
<1>. QED
  BY <1>4, <1>5, <1>6

\* An execution reads what is published.
LEMMA ReadStep ==
  ASSUME PriceInv, NEW t \in Token, ReadPublished(t)
  PROVE  PriceInv'
<1>. DEFINE prices == [NoPrices EXCEPT ![t] = published.age]
<1>1. /\ service.of = "native" /\ told' = [how |-> "published", prices |-> prices]
      /\ UNCHANGED <<service, ask, cache, batch, native, published>>
  BY DEF ReadPublished
<1>2. published.age \in Known /\ published.left \in Nat /\ Natives
  BY DEF PriceInv, PriceType
<1>3. prices \in [Token -> Known] /\ \A u \in Token : prices[u] # Null => prices[u] = published.age
  BY <1>2, IdleAsks
<1>4. published.age # Null => published.age \in Nat /\ published.age <= 2 * Minute - 1 + Feed
  BY <1>2, OldestType DEF Natives, Known
<1>. HIDE DEF prices
<1>5. told'.how = "published" /\ told'.prices = prices
  BY <1>1
<1>6. PricesRecent'
  BY <1>1, <1>3, <1>4, <1>5 DEF PricesRecent
<1>7. ask' \in [Ask -> PriceRequest] /\ Asks'
  BY <1>1 DEF PriceInv, PriceType, Asks
<1>. QED
  BY <1>1, <1>3, <1>5, <1>6, <1>7, PricesFrame DEF PriceInv

\* Everything kept grows older at once.
LEMMA PriceTickStep ==
  ASSUME PriceInv, PriceTick
  PROVE  PriceInv'
<1>1. PriceType /\ Asks /\ MarketCaches /\ FairCaches /\ Batches /\ Natives
  BY DEF PriceInv
<1>2. /\ \A q \in Ask : ask[q].step # "idle" =>
           ask[q].age < IF ask[q].step \in {"token", "late"} /\ ask[q].left = {"cg"} THEN Race + Slow
                        ELSE Race
      /\ ask' = [q \in Ask |->
           IF ask[q].step = "idle" THEN ask[q]
           ELSE [ask[q] EXCEPT !.age = ask[q].age + 1, !.got = OlderAll(ask[q].got)]]
      /\ cache' = [t \in Token |-> [at |-> Older(cache[t].at), prices |-> OlderAll(cache[t].prices)]]
      /\ batch' = IF batch.at > Doubtful THEN batch
                  ELSE [batch EXCEPT !.at = batch.at + 1, !.prices = OlderAll(batch.prices)]
      /\ native' = [native EXCEPT !.at = Older(native.at), !.age = Older(native.age)]
      /\ published' = IF published.left <= 1 THEN [left |-> 0, age |-> Null]
                      ELSE [left |-> published.left - 1, age |-> Older(published.age)]
      /\ told' = Unanswered
      /\ UNCHANGED service
  BY DEF PriceTick
<1>3. batch'.omitted = batch.omitted
  BY <1>1, <1>2 DEF PriceType
<1>4. ASSUME NEW q \in Ask
      PROVE  ask'[q] \in PriceRequest /\ Proper(ask'[q], service.of, batch.omitted)
  <2>1. ask[q] \in PriceRequest /\ Proper(ask[q], service.of, batch.omitted)
    BY <1>1 DEF PriceType, Asks
  <2>2. CASE ask[q].step = "idle"
    BY <1>2, <2>1, <2>2
  <2>3. CASE ask[q].step # "idle"
    <3>. DEFINE got == OlderAll(ask[q].got)
    <3>. DEFINE r == ask'[q]
    <3>1. ask'[q] = [ask[q] EXCEPT !.age = ask[q].age + 1, !.got = got]
      BY <1>2, <2>3
    <3>2. /\ ask[q].age \in Nat /\ ask[q].got \in [Token -> Known] /\ ask[q].age + 1 \in Nat
          /\ ask[q].left \in SUBSET {"cg", "dex", "db"}
      BY <2>1 DEF PriceRequest
    <3>3. got \in [Token -> Known] /\ \A t \in Token : got[t] = Older(ask[q].got[t])
      BY <3>2, OlderPrices
    <3>4. ASSUME NEW t \in Token, got[t] # Null
          PROVE  /\ ask[q].got[t] # Null /\ ask[q].got[t] \in Nat /\ got[t] \in Nat
                 /\ got[t] <= ask[q].got[t] + 1
      BY <3>2, <3>3, <3>4, OlderKnown DEF Known
    <3>. HIDE DEF got
    <3>5. /\ r \in PriceRequest /\ r.step = ask[q].step /\ r.token = ask[q].token
          /\ r.age = ask[q].age + 1 /\ r.got = got
      BY <2>1, <3>1, <3>2, <3>3 DEF PriceRequest
    <3>. HIDE DEF r
    <3>6. InTime(r)
      <4>1. ask[q].age < IF ask[q].step \in {"token", "late"} /\ ask[q].left = {"cg"} THEN Race + Slow
                         ELSE Race
        BY <1>2, <2>3
      <4>. QED
        BY <3>2, <3>5, <4>1, OldestType DEF InTime
    <3>7. ASSUME NEW t \in Token, got[t] # Null
          PROVE  /\ r.step \in {"apis", "chain"} => got[t] <= r.age
                 /\ r.step \in Estimating \cup {"fetched"} /\ t \notin batch.omitted =>
                      got[t] <= r.age + Doubtful
                 /\ r.step = "cached" /\ t \notin batch.omitted =>
                      got[t] <= r.age + (Fresh - 1 + Doubtful + Race + Slow)
      <4>. DEFINE old == ask[q].got[t]
      <4>1. old # Null /\ old \in Nat /\ got[t] \in Nat /\ got[t] <= old + 1
        BY <3>4, <3>7
      <4>2. /\ ask[q].step \in {"apis", "chain"} => old <= ask[q].age
            /\ ask[q].step \in Estimating \cup {"fetched"} /\ t \notin batch.omitted =>
                 old <= ask[q].age + Doubtful
            /\ ask[q].step = "cached" /\ t \notin batch.omitted =>
                 old <= ask[q].age + (Fresh - 1 + Doubtful + Race + Slow)
        BY <2>1, <4>1 DEF Proper
      <4>. HIDE DEF old
      <4>. QED
        BY <3>2, <3>5, <4>1, <4>2, OldestType
    <3>8. Proper(r, service.of, batch.omitted)
      BY <2>1, <3>5, <3>6, <3>7 DEF Proper
    <3>. QED
      BY <3>5, <3>8 DEF r
  <2>. QED
    BY <2>2, <2>3
<1>5. Asks' /\ ask' \in [Ask -> PriceRequest]
  <2>1. ask' \in [Ask -> PriceRequest]
    BY <1>2, <1>4
  <2>. QED
    BY <1>2, <1>3, <1>4, <2>1 DEF Asks
<1>6. ASSUME NEW s \in Token
      PROVE  /\ cache'[s] \in [at : 0 .. Oldest, prices : [Token -> Known]]
             /\ \A t \in Token :
                  /\ service.of = "market" /\ cache'[s].prices[t] # Null =>
                       cache'[s].prices[t] <= cache'[s].at + Race
                  /\ service.of = "fair" /\ t \notin batch.omitted /\ cache'[s].prices[t] # Null =>
                       cache'[s].prices[t] <= cache'[s].at + (Doubtful + Race + Slow)
  <2>1. cache[s].at \in 0 .. Oldest /\ cache[s].prices \in [Token -> Known]
    BY <1>1 DEF PriceType
  <2>. DEFINE prices == OlderAll(cache[s].prices)
  <2>2. prices \in [Token -> Known] /\ \A t \in Token : prices[t] = Older(cache[s].prices[t])
    BY <2>1, OlderPrices
  <2>3. cache'[s].at = Older(cache[s].at) /\ cache'[s].prices = prices
        /\ cache'[s] = [at |-> Older(cache[s].at), prices |-> prices]
    BY <1>2
  <2>. HIDE DEF prices
  <2>4. Older(cache[s].at) \in 0 .. Oldest
    <3>1. Null \in Known /\ 0 \in Nat
      BY DEF Known
    <3>. QED
      BY <2>1, <3>1, AgesAlike
  <2>5. ASSUME NEW t \in Token, prices[t] # Null
        PROVE  /\ service.of = "market" => prices[t] <= Older(cache[s].at) + Race
               /\ service.of = "fair" /\ t \notin batch.omitted =>
                    prices[t] <= Older(cache[s].at) + (Doubtful + Race + Slow)
    <3>1. cache[s].prices[t] \in Known /\ prices[t] = Older(cache[s].prices[t])
      BY <2>1, <2>2
    <3>2. cache[s].prices[t] # Null
      BY <2>5, <3>1, OlderKnown
    <3>3. ASSUME service.of = "market" PROVE prices[t] <= Older(cache[s].at) + Race
      <4>1. cache[s].prices[t] <= cache[s].at + Race
        BY <1>1, <3>2, <3>3 DEF MarketCaches
      <4>. QED
        BY <2>1, <2>5, <3>1, <4>1, AgesAlike, OldestType
    <3>4. ASSUME service.of = "fair", t \notin batch.omitted
          PROVE  prices[t] <= Older(cache[s].at) + (Doubtful + Race + Slow)
      <4>. DEFINE before == Doubtful + Race + Slow
      <4>1. cache[s].prices[t] <= cache[s].at + before /\ before \in Nat
        BY <1>1, <3>2, <3>4, OldestType DEF FairCaches
      <4>. HIDE DEF before
      <4>2. prices[t] <= Older(cache[s].at) + before
        BY <2>1, <2>5, <3>1, <4>1, AgesAlike
      <4>. QED
        BY <4>2 DEF before
    <3>. QED
      BY <3>3, <3>4
  <2>. QED
    BY <2>2, <2>3, <2>4, <2>5
<1>7. /\ MarketCaches' /\ FairCaches'
      /\ cache' \in [Token -> [at : 0 .. Oldest, prices : [Token -> Known]]]
  <2>1. cache' \in [Token -> [at : 0 .. Oldest, prices : [Token -> Known]]]
    BY <1>2, <1>6
  <2>. QED
    BY <1>2, <1>3, <1>6, <2>1 DEF MarketCaches, FairCaches
<1>11. /\ Batches'
       /\ batch' \in [at : 0 .. Doubtful + 1, prices : [Token -> Known], omitted : SUBSET Token]
  <2>1. /\ batch.at \in 0 .. Doubtful + 1 /\ batch.prices \in [Token -> Known]
        /\ batch.omitted \in SUBSET Token
    BY <1>1 DEF PriceType
  <2>2. CASE batch.at > Doubtful
    BY <1>1, <1>2, <2>2 DEF PriceType, Batches
  <2>3. CASE ~(batch.at > Doubtful)
    <3>. DEFINE prices == OlderAll(batch.prices)
    <3>1. prices \in [Token -> Known] /\ \A t \in Token : prices[t] = Older(batch.prices[t])
      BY <2>1, OlderPrices
    <3>2. batch' = [batch EXCEPT !.at = batch.at + 1, !.prices = prices]
      BY <1>2, <2>3
    <3>3. batch.at \in Nat /\ batch.at + 1 \in 0 .. Doubtful + 1
      BY <2>1, <2>3, OldestType
    <3>4. ASSUME NEW t \in Token \ batch.omitted, prices[t] # Null
          PROVE  t \in Listed /\ prices[t] <= batch.at + 1
      <4>1. batch.prices[t] \in Known /\ prices[t] = Older(batch.prices[t])
        BY <2>1, <3>1
      <4>2. /\ batch.prices[t] # Null /\ batch.prices[t] \in Nat /\ prices[t] \in Nat
            /\ prices[t] <= batch.prices[t] + 1
        BY <3>1, <3>4, <4>1, OlderKnown DEF Known
      <4>3. t \in Listed /\ batch.prices[t] <= batch.at
        BY <1>1, <4>2 DEF Batches
      <4>. QED
        BY <3>3, <4>2, <4>3
    <3>. HIDE DEF prices
    <3>5. /\ batch'.at = batch.at + 1 /\ batch'.prices = prices /\ batch'.omitted = batch.omitted
          /\ batch' \in [at : 0 .. Doubtful + 1, prices : [Token -> Known], omitted : SUBSET Token]
      BY <1>1, <2>1, <3>1, <3>2, <3>3 DEF PriceType
    <3>. QED
      BY <3>4, <3>5 DEF Batches
  <2>. QED
    BY <2>2, <2>3
<1>8. Natives' /\ native' \in [at : 0 .. Oldest, age : Known, whose : Token \cup {Null}]
      /\ published' \in [left : Nat, age : Known]
  <2>1. native.age \in Known /\ native.at \in 0 .. Oldest
    BY <1>1 DEF PriceType
  <2>2. /\ Older(native.age) \in Known /\ Older(native.at) \in 0 .. Oldest
        /\ Older(native.age) # Null => Older(native.age) <= Older(native.at) + Feed
    BY <1>1, <2>1, AgesAlike, OldestType DEF Natives
  <2>3. /\ native' \in [at : 0 .. Oldest, age : Known, whose : Token \cup {Null}]
        /\ native'.at = Older(native.at) /\ native'.age = Older(native.age)
    BY <1>1, <1>2, <2>2 DEF PriceType
  <2>4. /\ published' \in [left : Nat, age : Known]
        /\ published'.age # Null =>
             published'.left > 0 /\ published'.age + published'.left <= 2 * Minute + Feed
    <3>1. published.left \in Nat /\ published.age \in Known /\ Older(published.age) \in Known
      BY <1>1, OlderKnown DEF PriceType
    <3>2. CASE published.left <= 1
      <4>1. published' = [left |-> 0, age |-> Null]
        BY <1>2, <3>2
      <4>. QED
        BY <4>1 DEF Known
    <3>3. CASE ~(published.left <= 1)
      <4>1. published' = [left |-> published.left - 1, age |-> Older(published.age)]
        BY <1>2, <3>3
      <4>2. published.left - 1 \in Nat /\ published.left - 1 > 0
        BY <3>1, <3>3
      <4>3. /\ published' \in [left : Nat, age : Known]
            /\ published'.left = published.left - 1 /\ published'.age = Older(published.age)
        BY <3>1, <4>1, <4>2
      <4>4. ASSUME Older(published.age) # Null
            PROVE  Older(published.age) + (published.left - 1) <= 2 * Minute + Feed
        <5>1. /\ published.age # Null /\ published.age \in Nat /\ Older(published.age) \in Nat
              /\ Older(published.age) <= published.age + 1
          BY <3>1, <4>4, OlderKnown DEF Known
        <5>2. published.age + published.left <= 2 * Minute + Feed
          BY <1>1, <5>1 DEF Natives
        <5>. QED
          BY <3>1, <5>1, <5>2, OldestType
      <4>. QED
        BY <4>2, <4>3, <4>4
    <3>. QED
      BY <3>2, <3>3
  <2>. QED
    BY <2>2, <2>3, <2>4 DEF Natives
<1>9. told'.prices \in [Token -> Known] /\ PricesRecent'
  BY <1>2, UntoldStep
<1>10. PriceType'
  BY <1>1, <1>2, <1>5, <1>7, <1>8, <1>9, <1>11 DEF PriceType
<1>. QED
  BY <1>5, <1>7, <1>8, <1>9, <1>10, <1>11 DEF PriceInv

LEMMA PriceStep ==
  ASSUME PriceInv, [PriceNext]_priceVars
  PROVE  PriceInv'
<1>1. CASE UNCHANGED priceVars
  BY <1>1 DEF PriceInv, PriceType, Asks, MarketCaches, FairCaches, Batches, Natives, PricesRecent,
    priceVars
<1>2. ASSUME NEW q \in Ask,
             \/ MarketAsk(q) \/ MarketTimeout(q)
             \/ \E listed \in SUBSET Listed, unlisted \in SUBSET Token : Apis(q, listed, unlisted)
             \/ \E found \in SUBSET Token : OnChain(q, found)
      PROVE  PriceInv'
  <2>1. {} \in SUBSET Listed /\ {} \in SUBSET Token
    OBVIOUS
  <2>. QED
    BY <1>2, <2>1, MarketStep
<1>3. ASSUME NEW q \in Ask,
             \/ \E t \in Token, whole \in BOOLEAN : FairAsk(q, t, whole)
             \/ \E priced \in SUBSET Listed, ok \in BOOLEAN : CoinGecko(q, priced, ok)
             \/ \E found \in BOOLEAN : DexScreener(q, found)
             \/ \E age \in 0 .. (Doubtful + 1) : DbSnapshot(q, age)
             \/ FairTimeout(q) \/ PageAnswered(q)
      PROVE  PriceInv'
  <2>1. {} \in SUBSET Listed /\ Shared \in Token /\ TRUE \in BOOLEAN /\ 0 \in 0 .. (Doubtful + 1)
    BY PriceAssumption, OldestType DEF Shared
  <2>. QED
    BY <1>3, <2>1, FairStep
<1>4. ASSUME NEW q \in Ask,
             \/ \E t \in Token : NativeAsk(q, t) \/ BalanceAsk(q, t)
             \/ \E age \in 0 .. Feed, reached \in BOOLEAN : NativeAnswered(q, age, reached)
             \/ NativeFails(q)
      PROVE  PriceInv'
  <2>1. 0 \in 0 .. Feed /\ Shared \in Token /\ TRUE \in BOOLEAN
    BY PriceAssumption, OldestType DEF Shared
  <2>. QED
    BY <1>4, <2>1, NativeStep
<1>5. ASSUME NEW t \in Token, ReadPublished(t)
      PROVE  PriceInv'
  BY <1>5, ReadStep
<1>6. CASE PriceTick
  BY <1>6, PriceTickStep
<1>. QED
  BY <1>1, <1>2, <1>3, <1>4, <1>5, <1>6 DEF PriceNext

LEMMA PriceStarts == PriceInit => PriceInv
<1>. SUFFICES ASSUME PriceInit PROVE PriceInv
  OBVIOUS
<1>1. /\ service \in PriceSettings /\ ask = [q \in Ask |-> Idle]
      /\ cache = [t \in Token |-> [at |-> Oldest, prices |-> NoPrices]]
      /\ batch = [at |-> Doubtful + 1, prices |-> NoPrices, omitted |-> {}]
      /\ native = [at |-> Oldest, age |-> Null, whose |-> Null]
      /\ published = [left |-> 0, age |-> Null] /\ told.prices = NoPrices
  BY DEF PriceInit, Nothing, Unanswered
<1>2. Oldest \in 0 .. Oldest /\ Null \in Known /\ Doubtful + 1 \in 0 .. Doubtful + 1
  BY OldestType DEF Known
<1>3. PriceType
  <2>1. /\ ask \in [Ask -> PriceRequest]
        /\ cache \in [Token -> [at : 0 .. Oldest, prices : [Token -> Known]]]
    BY <1>1, <1>2, IdleAsks
  <2>2. /\ batch \in [at : 0 .. Doubtful + 1, prices : [Token -> Known], omitted : SUBSET Token]
        /\ native \in [at : 0 .. Oldest, age : Known, whose : Token \cup {Null}]
        /\ published \in [left : Nat, age : Known]
    BY <1>1, <1>2, IdleAsks
  <2>3. /\ service \in PriceSettings
        /\ told.prices \in [Token -> Known]
    BY <1>1, IdleAsks
  <2>. QED
    BY <2>1, <2>2, <2>3 DEF PriceType
<1>4. Asks
  BY <1>1, IdleIsProper DEF Asks
<1>5. MarketCaches /\ FairCaches /\ Batches
  BY <1>1, IdleAsks DEF MarketCaches, FairCaches, Batches
<1>6. Natives
  BY <1>1 DEF Natives
<1>7. PricesRecent
  BY <1>1, IdleAsks DEF PricesRecent
<1>. QED
  BY <1>3, <1>4, <1>5, <1>6, <1>7 DEF PriceInv

\* Whoever asks, and however late or empty the sources' answers are, nobody is
\* told a price older than its service and the way it came allow: but for an
\* estimate the page's timer falls back on, whose age the code does not limit.
THEOREM PricesAreRecent == PriceSpec => []PricesRecent
<1>1. PriceInv /\ [PriceNext]_priceVars => PriceInv'
  BY PriceStep
<1>2. PriceInv => PricesRecent
  BY DEF PriceInv
<1>. QED
  BY <1>1, <1>2, PriceStarts, PTL DEF PriceSpec

-----------------------------------------------------------------------------
(* Pools                                                                    *)

Verified == {"found", "factory", "worker"}
ByHand == {"typed", "late"}

\* A form that shows a discovered address shows the one of what it holds.
FormFits(f) ==
  /\ DOMAIN f = {"key", "pool", "from", "seek"}
  /\ f.key \in Key
  /\ f.from = "found" => f.pool = PoolOf(f.key)
  /\ f.pool # NoPool => f.from \in {"found"} \cup ByHand

\* A request for a discovered pool is for the one of its key; the tokens it
\* found are those of its key, however they are spelled.
JobFits(j) ==
  /\ DOMAIN j = {"step", "key", "pool", "from", "found"}
  /\ j.step \in {"resolve", "find", "create", "save"} =>
       /\ j.key \in Key
       /\ j.from \in Verified \cup ByHand
       /\ j.from \in Verified => j.pool = PoolOf(j.key)
  /\ j.step = "create" =>
       \A t \in Spelled(j) : j.found[t] = NoPool \/ Address[j.found[t]] = Address[t]
  /\ j.step = "save" => \A t \in Spelled(j) : Address[j.found[t]] = Address[t]

Forms ==
  /\ DOMAIN form = Desk /\ \A d \in Desk : FormFits(form[d])
  /\ finds \in [Desk -> SUBSET Key]
DeskJobs == DOMAIN job = Desk /\ \A d \in Desk : JobFits(job[d])

\* Only what was typed, or found for what a form held before, may be another
\* pool's.
RegistryRows ==
  \A r \in rows : r.from \in Verified \cup ByHand /\ (r.from \in Verified => r.pool = PoolOf(r.key))

KnownFits(p, k) ==
  /\ DOMAIN k = {"is", "key", "from"}
  /\ k.is = "row" /\ k.from \notin ByHand =>
       /\ PoolOf(k.key) = p
       /\ \E r \in rows : r.key = k.key
KnownRows == DOMAIN known = Pools /\ \A p \in Pools : KnownFits(p, known[p])

DeskInv == desk \in DeskSettings /\ Forms /\ DeskJobs /\ RegistryRows /\ KnownRows

\* A step that touches forms alone.
LEMMA OthersStay ==
  ASSUME DeskInv, UNCHANGED <<desk, job, rows, known>>
  PROVE  desk' \in DeskSettings /\ DeskJobs' /\ RegistryRows' /\ KnownRows'
  <1>1. desk' \in DeskSettings
    BY DEF DeskInv
  <1>2. DeskJobs'
    BY DEF DeskInv, DeskJobs, JobFits, PoolOf, Spelled
  <1>3. RegistryRows'
    BY DEF DeskInv, RegistryRows, PoolOf
  <1>4. KnownRows'
    BY DEF DeskInv, KnownRows, KnownFits, PoolOf, Pools
  <1>5. QED
    BY <1>1, <1>2, <1>3, <1>4

\* A row that has the key of a known one is of its pool, or made by hand.
LEMMA DeskSafe == DeskInv => PoolsAsFound
  <1> SUFFICES ASSUME DeskInv
               PROVE  PoolsAsFound
    OBVIOUS
  <1>1. \A r \in rows : r.from \in {"found", "factory", "worker"} => r.pool = PoolOf(r.key)
    BY DEF DeskInv, RegistryRows, Verified
  <1>2. ASSUME NEW p \in Pools, known[p].is = "row", known[p].from \notin {"typed", "late"}
        PROVE  \E r \in rows : r.key = known[p].key /\ (r.pool = p \/ r.from \in {"typed", "late"})
    <2>1. PoolOf(known[p].key) = p /\ \E r \in rows : r.key = known[p].key
      BY <1>2 DEF DeskInv, KnownRows, KnownFits, ByHand
    <2>2. PICK r \in rows : r.key = known[p].key
      BY <2>1
    <2>3. r.from \in Verified => r.pool = p
      BY <2>1, <2>2 DEF DeskInv, RegistryRows
    <2>4. r.from \in Verified \cup ByHand
      BY DEF DeskInv, RegistryRows
    <2>5. QED
      BY <2>2, <2>3, <2>4 DEF ByHand
  <1>3. QED
    BY <1>1, <1>2 DEF PoolsAsFound

LEMMA DeskKeys ==
  ASSUME NEW s \in DeskSettings
  PROVE  s.keys \subseteq Key /\ s.keys # {}
  <1>1. s \in [at : SUBSET Desk, keys : (SUBSET Key) \ {{}}, typed : SUBSET Typed,
               by : SUBSET {"form", "v2", "worker"}]
    BY DeskAssumption
  <1>2. s.keys \in (SUBSET Key) \ {{}}
    BY <1>1
  <1>3. QED
    BY <1>2

LEMMA DeskStarts == DeskInit => DeskInv
  <1> SUFFICES ASSUME DeskInit
               PROVE  DeskInv
    OBVIOUS
  <1>1. desk \in DeskSettings /\ desk.keys \in (SUBSET Key) \ {{}}
    BY DeskKeys DEF DeskInit
  <1>2. (CHOOSE k \in desk.keys : TRUE) \in Key
    BY <1>1
  <1>3. Forms
    BY <1>2 DEF DeskInit, Forms, FormFits
  <1>4. DeskJobs
    BY DEF DeskInit, DeskJobs, JobFits, Done
  <1>5. RegistryRows /\ KnownRows
    BY DEF DeskInit, RegistryRows, KnownRows, KnownFits, NoRow
  <1>6. QED
    BY <1>1, <1>3, <1>4, <1>5 DEF DeskInv

\* One request goes on.
LEMMA JobGoesOn ==
  ASSUME DeskJobs, NEW d \in Desk, NEW j, JobFits(j), job' = [job EXCEPT ![d] = j]
  PROVE  DeskJobs'
  <1>1. DOMAIN job' = Desk /\ \A e \in Desk : JobFits(job'[e])
    BY DEF DeskJobs
  <1>2. QED
    BY <1>1 DEF DeskJobs, JobFits, Spelled, PoolOf

\* Rows come, and none leaves that another of its key does not replace.
LEMMA KnownStay ==
  ASSUME KnownRows, UNCHANGED known,
         \A r \in rows : \E s \in rows' : s.key = r.key
  PROVE  KnownRows'
  BY DEF KnownRows, KnownFits, PoolOf, Pools

\* Another spelling of the tokens does not make another pool.
LEMMA SpelledAlike ==
  ASSUME NEW k \in Key, NEW s0, NEW s1, Address[s0] = Address[k.t0], Address[s1] = Address[k.t1]
  PROVE  PoolOf([k EXCEPT !.t0 = s0, !.t1 = s1]) = PoolOf(k)
  <1> DEFINE q == [k EXCEPT !.t0 = s0, !.t1 = s1]
  <1>1. q.venue = k.venue /\ q.fee = k.fee /\ q.t0 = s0 /\ q.t1 = s1
    BY DeskAssumption
  <1>2. QED
    BY <1>1 DEF PoolOf

\* The row a request saves names the pool of its key.
LEMMA SavedRow ==
  ASSUME NEW j, JobFits(j), j.step = "save"
  PROVE  /\ j.from \in Verified \cup ByHand
         /\ j.from \in Verified => j.pool = PoolOf(RowKey(j))
  <1>1. /\ j.key \in Key /\ j.from \in Verified \cup ByHand
        /\ j.from \in Verified => j.pool = PoolOf(j.key)
        /\ Address[j.found[j.key.t0]] = Address[j.key.t0]
        /\ Address[j.found[j.key.t1]] = Address[j.key.t1]
    BY DEF JobFits, Spelled
  <1>2. PoolOf(RowKey(j)) = PoolOf(j.key)
    BY <1>1, SpelledAlike, ZenonT(40) DEF RowKey
  <1>3. QED
    BY <1>1, <1>2

\* The form: an edit forgets the address, an answer is for what was asked.
LEMMA PoolFormStep ==
  ASSUME DeskInv, NEW d \in Desk, NEW k \in desk.keys, NEW a \in desk.typed \cup {NoPool},
         \/ Edit(d, k) \/ Discovered(d, k) \/ DiscoverFails(d, k) \/ Discover(d)
         \/ a \in desk.typed /\ Type(d, a)
  PROVE  DeskInv'
  <1>1. UNCHANGED <<desk, job, rows, known>>
    BY DEF Edit, Discovered, DiscoverFails, Discover, Type
  <1>2. desk.keys \subseteq Key /\ FormFits(form[d]) /\ DOMAIN form = Desk
        /\ finds \in [Desk -> SUBSET Key]
    BY DeskKeys DEF DeskInv, Forms
  <1>3. finds' \in [Desk -> SUBSET Key]
    BY <1>2 DEF Edit, Discovered, DiscoverFails, Discover, Type, FormFits
  <1>4. FormFits(form'[d]) /\ DOMAIN form' = Desk /\ \A e \in Desk : e # d => form'[e] = form[e]
    <2>1. CASE Edit(d, k)
      BY <1>2, <2>1 DEF Edit, FormFits
    <2>2. CASE Discovered(d, k)
      BY <1>2, <2>2 DEF Discovered, FormFits, ByHand
    <2>3. CASE DiscoverFails(d, k)
      BY <1>2, <2>3 DEF DiscoverFails, FormFits
    <2>4. CASE Discover(d)
      BY <1>2, <2>4 DEF Discover, FormFits
    <2>5. CASE a \in desk.typed /\ Type(d, a)
      BY <1>2, <2>5 DEF Type, FormFits, ByHand
    <2>6. QED
      BY <2>1, <2>2, <2>3, <2>4, <2>5
  <1>5. Forms'
    BY <1>3, <1>4, ZenonT(40) DEF DeskInv, Forms, FormFits, PoolOf
  <1>6. QED
    BY <1>1, <1>5, OthersStay DEF DeskInv

\* Requests start: about the form's address, or about the factory's.
LEMMA AskForPool ==
  ASSUME DeskInv, NEW d \in Desk, NEW k \in desk.keys,
         Submit(d) \/ RegisterV2(d, k) \/ Refresh(d, k)
  PROVE  DeskInv'
  <1>1. UNCHANGED <<desk, form, finds, rows, known>>
    BY DEF Submit, RegisterV2, Refresh
  <1>2. k \in Key /\ FormFits(form[d]) /\ DeskJobs
    BY DeskKeys DEF DeskInv, Forms
  <1>3. DeskJobs'
    <2>1. CASE Submit(d)
      <3> DEFINE j == [step |-> "find", key |-> form[d].key, pool |-> form[d].pool,
                       from |-> form[d].from, found |-> {}]
      <3>1. JobFits(j)
        BY <1>2, <2>1 DEF Submit, JobFits, FormFits, Verified, ByHand
      <3>2. QED
        BY <1>2, <2>1, <3>1, JobGoesOn DEF Submit
    <2>2. CASE RegisterV2(d, k)
      <3> DEFINE j == [step |-> "find", key |-> k, pool |-> PoolOf(k), from |-> "factory",
                       found |-> {}]
      <3>1. JobFits(j)
        BY <1>2 DEF JobFits, Verified, ByHand
      <3>2. QED
        BY <1>2, <2>2, <3>1, JobGoesOn DEF RegisterV2
    <2>3. CASE Refresh(d, k)
      <3> DEFINE j == [step |-> "resolve", key |-> k, pool |-> PoolOf(k), from |-> "worker",
                       found |-> {}]
      <3>1. JobFits(j)
        BY <1>2 DEF JobFits, Verified, ByHand
      <3>2. QED
        BY <1>2, <2>3, <3>1, JobGoesOn DEF Refresh
    <2>4. QED
      BY <2>1, <2>2, <2>3
  <1>4. QED
    BY <1>1, <1>3, SMTT(20) DEF DeskInv, Forms, FormFits, RegistryRows, KnownRows, KnownFits, PoolOf, Pools

LEMMA DoneFits == JobFits(Done)
  BY DEF JobFits, Done

\* The tokens a request finds are its own in some spelling, and so are those it
\* creates.
LEMMA TokensStep ==
  ASSUME DeskInv, NEW d \in Desk,
         \/ FindTokens(d) \/ CreateTargets(d)
         \/ \E readable \in SUBSET DOMAIN Address : CreateTokens(d, readable)
  PROVE  DeskInv'
  <1>1. UNCHANGED <<desk, form, finds, rows>>
    BY DEF FindTokens, CreateTargets, CreateTokens
  <1>2. DeskJobs /\ JobFits(job[d])
    BY DEF DeskInv, DeskJobs
  <1>3. KnownRows /\ DOMAIN known = Pools /\ \A p \in Pools : KnownFits(p, known[p])
    BY DEF DeskInv, KnownRows
  <1>4. ASSUME Fails(d)
        PROVE  DeskJobs' /\ KnownRows'
    <2>1. DeskJobs'
      BY <1>2, <1>4, DoneFits, JobGoesOn DEF Fails
    <2>2. known' = known \/ known' = [known EXCEPT ![job[d].pool] = [known[job[d].pool] EXCEPT !.is = "null"]]
      BY <1>4 DEF Fails
    <2>3. DOMAIN known' = Pools /\ \A p \in Pools : KnownFits(p, known'[p])
      BY <1>3, <2>2 DEF KnownFits
    <2>4. QED
      BY <1>1, <2>1, <2>3 DEF KnownRows, KnownFits, PoolOf, Pools
  <1>5. ASSUME job[d].step = "create", AllFound(d), UNCHANGED known
        PROVE  DeskJobs' /\ KnownRows'
    <2> DEFINE j == [job[d] EXCEPT !.step = "save",
                       !.found = [t \in Spelled(job[d]) |-> IF t \in Missing(job[d]) THEN t ELSE job[d].found[t]]]
    <2>1. job' = [job EXCEPT ![d] = j]
      BY <1>5 DEF AllFound
    <2>2. /\ DOMAIN j = {"step", "key", "pool", "from", "found"}
          /\ j.step = "save" /\ j.key = job[d].key /\ j.pool = job[d].pool /\ j.from = job[d].from
          /\ Spelled(j) = Spelled(job[d])
          /\ \A t \in Spelled(j) :
               j.found[t] = t \/ (t \notin Missing(job[d]) /\ j.found[t] = job[d].found[t])
      BY <1>2 DEF JobFits, Spelled
    <2>3. \A t \in Spelled(j) : Address[j.found[t]] = Address[t]
      BY <1>2, <1>5, <2>2 DEF JobFits, Missing
    <2> HIDE DEF j
    <2>4. JobFits(j)
      BY <1>2, <1>5, <2>2, <2>3 DEF JobFits
    <2>5. DeskJobs'
      BY <1>2, <2>1, <2>4, JobGoesOn
    <2>6. QED
      BY <1>1, <1>3, <1>5, <2>5, KnownStay
  <1>6. CASE FindTokens(d)
    <2>1. PICK taken \in [Spelled(job[d]) -> tokens \cup {NoPool}] :
            /\ \A t \in Spelled(job[d]) :
                 taken[t] \in IF Alike(t) = {} THEN {NoPool} ELSE Alike(t)
            /\ job' = [job EXCEPT ![d] = [job[d] EXCEPT !.step = "create", !.found = taken]]
      BY <1>6 DEF FindTokens
    <2> DEFINE j == [job[d] EXCEPT !.step = "create", !.found = taken]
    <2>2. /\ DOMAIN j = {"step", "key", "pool", "from", "found"}
          /\ j.step = "create" /\ j.key = job[d].key /\ j.pool = job[d].pool /\ j.from = job[d].from
          /\ Spelled(j) = Spelled(job[d]) /\ j.found = taken
      BY <1>2 DEF JobFits, Spelled
    <2>3. \A t \in Spelled(j) : j.found[t] = NoPool \/ Address[j.found[t]] = Address[t]
      BY <2>1, <2>2 DEF Alike
    <2>4. job[d].step = "find"
      BY <1>6 DEF FindTokens
    <2>5. job' = [job EXCEPT ![d] = j]
      BY <2>1
    <2> HIDE DEF j
    <2>6. JobFits(j)
      BY <1>2, <2>2, <2>3, <2>4 DEF JobFits
    <2>7. DeskJobs' /\ UNCHANGED known
      BY <1>2, <1>6, <2>5, <2>6, JobGoesOn DEF FindTokens
    <2>8. QED
      BY <1>1, <1>3, <2>7, KnownStay DEF DeskInv, Forms, FormFits, RegistryRows, PoolOf
  <1>7. CASE CreateTargets(d) \/ \E readable \in SUBSET DOMAIN Address : CreateTokens(d, readable)
    <2>1. Fails(d) \/ (job[d].step = "create" /\ AllFound(d) /\ UNCHANGED known)
      BY <1>7 DEF CreateTargets, CreateTokens
    <2>2. DeskJobs' /\ KnownRows'
      BY <1>4, <1>5, <2>1
    <2>3. QED
      BY <1>1, <2>2 DEF DeskInv, Forms, FormFits, RegistryRows, PoolOf
  <1>8. QED
    BY <1>6, <1>7

\* Upserted's row takes the place of those of its key.
LEMMA UpsertStep ==
  ASSUME RegistryRows, NEW j, JobFits(j), j.step = "save", rows' = Upserted(j)
  PROVE  /\ RegistryRows'
         /\ \A r \in rows : \E s \in rows' : s.key = r.key
         /\ \E r \in rows' : r.key = RowKey(j)
  <1> DEFINE row == [key |-> RowKey(j), pool |-> j.pool, from |-> j.from]
  <1>1. rows' = {r \in rows : r.key # row.key} \cup {row}
    BY DEF Upserted
  <1>2. row.from \in Verified \cup ByHand /\ (row.from \in Verified => row.pool = PoolOf(row.key))
    BY SavedRow
  <1>3. row.key = RowKey(j)
    OBVIOUS
  <1> HIDE DEF row
  <1>4. \A r \in rows' : r.from \in Verified \cup ByHand /\ (r.from \in Verified => r.pool = PoolOf(r.key))
    BY <1>1, <1>2 DEF RegistryRows
  <1>5. RegistryRows'
    BY <1>4 DEF RegistryRows, PoolOf
  <1>6. QED
    BY <1>1, <1>3, <1>5

\* What the worker has learnt of a pool is of that pool.
LEMMA WorkerStep ==
  ASSUME DeskInv, WorkerRestarts \/ \E d \in Desk : Resolve(d) \/ AutoRegister(d)
  PROVE  DeskInv'
  <1>1. UNCHANGED <<desk, form, finds>>
    BY DEF WorkerRestarts, Resolve, AutoRegister
  <1>2. DeskJobs /\ KnownRows /\ RegistryRows /\ DOMAIN known = Pools
        /\ \A p \in Pools : KnownFits(p, known[p])
    BY DEF DeskInv, KnownRows
  <1>3. CASE WorkerRestarts
    <2>1. rows' = rows /\ known' = [p \in Pools |-> NoRow]
          /\ job' = [d \in Desk |-> IF job[d].from = "worker" THEN Done ELSE job[d]]
      BY <1>3 DEF WorkerRestarts
    <2>2. DOMAIN job' = Desk /\ \A d \in Desk : JobFits(job'[d])
      BY <1>2, <2>1, DoneFits DEF DeskJobs
    <2>3. KnownRows'
      BY <2>1 DEF KnownRows, KnownFits, NoRow, Pools
    <2>4. QED
      BY <1>1, <2>1, <2>2, <2>3
         DEF DeskInv, Forms, FormFits, DeskJobs, JobFits, RegistryRows, PoolOf, Spelled
  <1>4. ASSUME NEW d \in Desk, Resolve(d)
        PROVE  DeskInv'
    <2>1. rows' = rows /\ job[d].step = "resolve" /\ JobFits(job[d])
      BY <1>2, <1>4 DEF Resolve, DeskJobs
    <2>2. CASE \E r \in rows : r.pool = job[d].pool /\ known' = [known EXCEPT ![job[d].pool] = TheRow(r)]
                               /\ job' = [job EXCEPT ![d] = Done]
      <3>1. PICK r \in rows : r.pool = job[d].pool /\ known' = [known EXCEPT ![job[d].pool] = TheRow(r)]
                              /\ job' = [job EXCEPT ![d] = Done]
        BY <2>2
      <3>2. KnownFits(job[d].pool, TheRow(r))
        BY <1>2, <3>1 DEF KnownFits, TheRow, RegistryRows
      <3>3. DOMAIN known' = Pools /\ \A p \in Pools : KnownFits(p, known'[p])
        BY <1>2, <3>1, <3>2
      <3>4. KnownRows'
        BY <2>1, <3>3 DEF KnownRows, KnownFits, PoolOf, Pools
      <3>5. DeskJobs'
        BY <1>2, <3>1, DoneFits, JobGoesOn
      <3>6. QED
        BY <1>1, <2>1, <3>4, <3>5 DEF DeskInv, Forms, FormFits, RegistryRows, PoolOf
    <2>3. CASE job' = [job EXCEPT ![d] = [job[d] EXCEPT !.step = "find"]] /\ UNCHANGED known
      <3> DEFINE j == [job[d] EXCEPT !.step = "find"]
      <3>1. JobFits(j)
        BY <2>1 DEF JobFits
      <3>2. job' = [job EXCEPT ![d] = j]
        BY <2>3
      <3> HIDE DEF j
      <3>3. DeskJobs'
        BY <1>2, <3>1, <3>2, JobGoesOn
      <3>4. KnownRows'
        BY <1>2, <2>1, <2>3, KnownStay
      <3>5. QED
        BY <1>1, <2>1, <3>3, <3>4 DEF DeskInv, Forms, FormFits, RegistryRows, PoolOf
    <2>4. QED
      BY <1>4, <2>2, <2>3 DEF Resolve
  <1>5. ASSUME NEW d \in Desk, AutoRegister(d)
        PROVE  DeskInv'
    <2>1. JobFits(job[d]) /\ job[d].step = "save" /\ job[d].from = "worker" /\ job[d].key \in Key
          /\ rows' = Upserted(job[d]) /\ job' = [job EXCEPT ![d] = Done]
          /\ known' = [known EXCEPT ![job[d].pool] =
                        [is |-> "row", key |-> RowKey(job[d]), from |-> "worker"]]
      BY <1>2, <1>5 DEF AutoRegister, DeskJobs, JobFits
    <2>2. /\ RegistryRows'
          /\ \A r \in rows : \E s \in rows' : s.key = r.key
          /\ \E r \in rows' : r.key = RowKey(job[d])
      BY <1>2, <2>1, UpsertStep
    <2>3. PoolOf(RowKey(job[d])) = job[d].pool
      BY <2>1, SavedRow DEF Verified
    <2> DEFINE new == [is |-> "row", key |-> RowKey(job[d]), from |-> "worker"]
    <2>4. DOMAIN new = {"is", "key", "from"} /\ new.key = RowKey(job[d])
      OBVIOUS
    <2>5. \A p \in Pools : known'[p] = known[p] \/ (p = job[d].pool /\ known'[p] = new)
      BY <1>2, <2>1
    <2>6. DOMAIN known' = Pools
      BY <1>2, <2>1
    <2> HIDE DEF new
    <2>7. \A p \in Pools : /\ DOMAIN known'[p] = {"is", "key", "from"}
                           /\ known'[p].is = "row" /\ known'[p].from \notin ByHand =>
                                /\ PoolOf(known'[p].key) = p
                                /\ \E r \in rows' : r.key = known'[p].key
      BY <1>2, <2>2, <2>3, <2>4, <2>5 DEF KnownFits
    <2>8. KnownRows'
      BY <2>6, <2>7 DEF KnownRows, KnownFits, PoolOf, Pools
    <2>9. DeskJobs'
      BY <1>2, <2>1, DoneFits, JobGoesOn
    <2>10. QED
      BY <1>1, <2>2, <2>8, <2>9 DEF DeskInv, Forms, FormFits, PoolOf
  <1>6. QED
    BY <1>3, <1>4, <1>5

\* The API saves the pool, and its answer follows.
LEMMA SaveStep ==
  ASSUME DeskInv, NEW d \in Desk, SavePool(d) \/ SavePair(d) \/ Audited(d)
  PROVE  DeskInv'
  <1>1. UNCHANGED <<desk, form, finds, known>>
    BY DEF SavePool, SavePair, Audited
  <1>2. DeskJobs /\ KnownRows /\ RegistryRows /\ JobFits(job[d])
    BY DEF DeskInv, DeskJobs
  <1> DEFINE j == [job[d] EXCEPT !.step = "audit"]
  <1>3. JobFits(j)
    BY <1>2 DEF JobFits
  <1> HIDE DEF j
  <1>4. job' = [job EXCEPT ![d] = j] \/ job' = [job EXCEPT ![d] = Done]
    BY DEF SavePool, SavePair, Audited, j
  <1>5. DeskJobs'
    BY <1>2, <1>3, <1>4, DoneFits, JobGoesOn
  <1>6. RegistryRows' /\ \A r \in rows : \E s \in rows' : s.key = r.key
    <2>1. CASE SavePool(d)
      BY <1>2, <2>1, UpsertStep DEF SavePool
    <2>2. CASE SavePair(d)
      <3> DEFINE row == [key |-> RowKey(job[d]), pool |-> job[d].pool, from |-> job[d].from]
      <3>1. rows' = rows \/ rows' = rows \cup {row}
        BY <2>2 DEF SavePair
      <3>2. row.from \in Verified \cup ByHand /\ (row.from \in Verified => row.pool = PoolOf(row.key))
        BY <1>2, <2>2, SavedRow DEF SavePair
      <3> HIDE DEF row
      <3>3. \A r \in rows' : r.from \in Verified \cup ByHand /\ (r.from \in Verified => r.pool = PoolOf(r.key))
        BY <1>2, <3>1, <3>2 DEF RegistryRows
      <3>4. QED
        BY <3>1, <3>3 DEF RegistryRows, PoolOf
    <2>3. CASE Audited(d)
      BY <1>2, <2>3 DEF Audited, RegistryRows, PoolOf
    <2>4. QED
      BY <2>1, <2>2, <2>3
  <1>7. KnownRows'
    BY <1>1, <1>2, <1>6, KnownStay
  <1>8. QED
    BY <1>1, <1>5, <1>6, <1>7 DEF DeskInv, Forms, FormFits, PoolOf

LEMMA DiesStep ==
  ASSUME DeskInv, NEW d \in Desk, RequestDies(d)
  PROVE  DeskInv'
  <1>1. UNCHANGED <<desk, form, finds, rows>>
    BY DEF RequestDies
  <1>2. job' = [job EXCEPT ![d] = Done]
    BY DEF RequestDies, Fails
  <1>3. DeskJobs'
    BY <1>2, DoneFits, JobGoesOn DEF DeskInv
  <1>4. known' = known \/ known' = [known EXCEPT ![job[d].pool] = [known[job[d].pool] EXCEPT !.is = "null"]]
    BY DEF RequestDies, Fails
  <1>5. DOMAIN known' = Pools /\ \A p \in Pools : KnownFits(p, known'[p])
    BY <1>4 DEF DeskInv, KnownRows, KnownFits
  <1>6. KnownRows'
    BY <1>1, <1>5 DEF KnownRows, KnownFits, PoolOf, Pools
  <1>7. QED
    BY <1>1, <1>3, <1>6 DEF DeskInv, Forms, FormFits, RegistryRows, PoolOf

LEMMA DeskStep == DeskInv /\ [DeskNext]_deskVars => DeskInv'
  <1> SUFFICES ASSUME DeskInv, [DeskNext]_deskVars
               PROVE  DeskInv'
    OBVIOUS
  <1>1. PICK k \in desk.keys : TRUE
    BY DeskKeys DEF DeskInv
  <1>2. ASSUME WorkerRestarts \/ \E d \in Desk : Resolve(d) \/ AutoRegister(d)
        PROVE  DeskInv'
    BY <1>2, WorkerStep
  <1>3. ASSUME NEW d \in Desk, NEW q \in desk.keys,
               Edit(d, q) \/ Discovered(d, q) \/ DiscoverFails(d, q)
        PROVE  DeskInv'
    BY <1>3, PoolFormStep
  <1>4. ASSUME NEW d \in Desk, Discover(d) \/ \E a \in desk.typed : Type(d, a)
        PROVE  DeskInv'
    BY <1>1, <1>4, PoolFormStep
  <1>5. ASSUME NEW d \in Desk, NEW q \in desk.keys, RegisterV2(d, q) \/ Refresh(d, q)
        PROVE  DeskInv'
    BY <1>5, AskForPool
  <1>6. ASSUME NEW d \in Desk, Submit(d)
        PROVE  DeskInv'
    BY <1>1, <1>6, AskForPool
  <1>7. ASSUME NEW d \in Desk, \/ FindTokens(d) \/ CreateTargets(d)
                               \/ \E readable \in SUBSET DOMAIN Address : CreateTokens(d, readable)
        PROVE  DeskInv'
    BY <1>7, TokensStep
  <1>8. ASSUME NEW d \in Desk, SavePool(d) \/ SavePair(d) \/ Audited(d)
        PROVE  DeskInv'
    BY <1>8, SaveStep
  <1>9. ASSUME NEW d \in Desk, RequestDies(d)
        PROVE  DeskInv'
    BY <1>9, DiesStep
  <1>10. CASE UNCHANGED deskVars
    <2>1. UNCHANGED <<desk, form, finds, job, rows, known>>
      BY <1>10 DEF deskVars
    <2>2. Forms'
      BY <2>1 DEF DeskInv, Forms, FormFits, PoolOf
    <2>3. QED
      BY <2>1, <2>2, OthersStay DEF DeskInv
  <1>11. QED
    BY <1>2, <1>3, <1>4, <1>5, <1>6, <1>7, <1>8, <1>9, <1>10 DEF DeskNext

\* Whatever operators, pages and the worker register at once, in any spelling
\* and whatever of it fails: an address that no hand typed and no edit crossed
\* is the factory's for the row's venue, tokens and fee, and the row the worker
\* takes snapshots for stays one of its pool.
THEOREM PoolsAreAsFound == DeskSpec => []PoolsAsFound
  BY DeskStarts, DeskStep, DeskSafe, PTL DEF DeskSpec

-----------------------------------------------------------------------------
(* Liquidity                                                                *)

\* A removal that the API sent carries the minima of what it read.
Protected(tx) ==
  /\ tx.kind \in {"approve", "add", "remove"}
  /\ tx.kind = "remove" /\ tx.via = "api" =>
       tx.minA = Floor(tx.expected[1]) /\ tx.minB = Floor(tx.expected[2])

Sent(by) == {mempool[by][i] : i \in 1 .. Len(mempool[by])}

LiquidityInv ==
  /\ lset.firstIsZero \in BOOLEAN
  /\ DOMAIN mempool = Account
  /\ \A by \in Account : mempool[by] \in Seq(Sent(by)) /\ \A m \in Sent(by) : Protected(m.tx)
  /\ RemovalPays

\* The elements of a queue that grows at one end or shrinks at the other.
LEMMA QueueJoined ==
  ASSUME NEW S, NEW s \in Seq(S), NEW e
  PROVE  /\ Append(s, e) \in Seq({Append(s, e)[i] : i \in 1 .. Len(Append(s, e))})
         /\ \A i \in 1 .. Len(Append(s, e)) :
              Append(s, e)[i] = e \/ \E j \in 1 .. Len(s) : Append(s, e)[i] = s[j]
  <1>1. s \in Seq(S \cup {e}) /\ Append(s, e) \in Seq(S \cup {e})
        /\ Len(Append(s, e)) = Len(s) + 1 /\ Len(s) \in Nat
    OBVIOUS
  <1>2. ASSUME NEW T, NEW t \in Seq(T)
        PROVE  t \in Seq({t[i] : i \in 1 .. Len(t)})
    OBVIOUS
  <1>3. \A i \in 1 .. Len(s) : Append(s, e)[i] = s[i]
    OBVIOUS
  <1>4. Append(s, e)[Len(s) + 1] = e
    OBVIOUS
  <1>5. PICK a : a = Append(s, e)
    OBVIOUS
  <1>6. PICK n \in Nat : n = Len(s)
    BY <1>1
  <1>7. a \in Seq({a[i] : i \in 1 .. Len(a)})
    BY <1>1, <1>2, <1>5
  <1>8. ASSUME NEW i \in 1 .. Len(a) PROVE a[i] = e \/ \E j \in 1 .. Len(s) : a[i] = s[j]
    <2>1. Len(a) = n + 1
      BY <1>1, <1>5, <1>6
    <2>2. i = n + 1 \/ i \in 1 .. n
      BY <2>1
    <2>3. CASE i = n + 1
      BY <1>4, <1>5, <1>6, <2>3
    <2>4. CASE i \in 1 .. n
      BY <1>3, <1>5, <1>6, <2>4
    <2>5. QED
      BY <2>2, <2>3, <2>4
  <1>9. QED
    BY <1>5, <1>7, <1>8, Zenon

LEMMA QueueLeft ==
  ASSUME NEW S, NEW s \in Seq(S), s # <<>>
  PROVE  /\ Tail(s) \in Seq({Tail(s)[i] : i \in 1 .. Len(Tail(s))})
         /\ \A i \in 1 .. Len(Tail(s)) : \E j \in 1 .. Len(s) : Tail(s)[i] = s[j]
         /\ \E j \in 1 .. Len(s) : Head(s) = s[j]
  <1>1. /\ Tail(s) \in Seq(S) /\ Len(s) \in Nat /\ Len(s) > 0 /\ Len(Tail(s)) = Len(s) - 1
        /\ \A i \in 1 .. Len(Tail(s)) : Tail(s)[i] = s[i + 1]
        /\ Head(s) = s[1]
    OBVIOUS
  <1>2. ASSUME NEW T, NEW t \in Seq(T)
        PROVE  t \in Seq({t[i] : i \in 1 .. Len(t)})
    OBVIOUS
  <1>3. Tail(s) \in Seq({Tail(s)[i] : i \in 1 .. Len(Tail(s))})
    BY <1>1, <1>2
  <1>4. \A i \in 1 .. Len(Tail(s)) : i + 1 \in 1 .. Len(s) /\ Tail(s)[i] = s[i + 1]
    BY <1>1
  <1>5. 1 \in 1 .. Len(s) /\ Head(s) = s[1]
    BY <1>1
  <1>6. QED
    BY <1>3, <1>4, <1>5

LEMMA LiquidityStarts == LiquidityInit => LiquidityInv
  <1> SUFFICES ASSUME LiquidityInit
               PROVE  LiquidityInv
    OBVIOUS
  <1>1. lset.firstIsZero \in BOOLEAN
    BY LiquidityAssumption DEF LiquidityInit
  <1>2. \A by \in Account : mempool[by] = <<>>
    BY DEF LiquidityInit
  <1>3. \A by \in Account : Sent(by) = {}
    BY <1>2 DEF Sent
  <1>4. QED
    BY <1>1, <1>2, <1>3 DEF LiquidityInit, LiquidityInv, RemovalPays, Unpaid

\* A transaction joins an account's queue.
LEMMA SendStep ==
  ASSUME LiquidityInv, UNCHANGED <<lset, paid>>, NEW by, NEW m, Protected(m.tx),
         mempool' = [mempool EXCEPT ![by] = Append(mempool[by], m)]
  PROVE  LiquidityInv'
  <1>1. DOMAIN mempool' = Account
    BY DEF LiquidityInv
  <1>2. ASSUME NEW a \in Account
        PROVE  mempool'[a] \in Seq(Sent(a)') /\ \A n \in Sent(a)' : Protected(n.tx)
    <2>1. mempool[a] \in Seq(Sent(a)) /\ \A n \in Sent(a) : Protected(n.tx)
      BY DEF LiquidityInv
    <2>2. CASE a = by
      <3>1. mempool'[a] = Append(mempool[a], m)
        BY <2>2 DEF LiquidityInv
      <3>2. mempool'[a] \in Seq(Sent(a)')
        <4> DEFINE q == Append(mempool[a], m)
        <4>1. q \in Seq({q[i] : i \in 1 .. Len(q)})
          <5>1. PICK s \in Seq(Sent(a)) : s = mempool[a]
            BY <2>1
          <5>2. Append(s, m) \in Seq({Append(s, m)[i] : i \in 1 .. Len(Append(s, m))})
            BY QueueJoined
          <5>3. QED
            BY <5>1, <5>2
        <4>2. Sent(a)' = {q[i] : i \in 1 .. Len(q)}
          BY <3>1 DEF Sent
        <4>3. QED
          BY <3>1, <4>1, <4>2
      <3>3. \A n \in Sent(a)' : n = m \/ n \in Sent(a)
        BY <2>1, <3>1, QueueJoined DEF Sent
      <3>4. QED
        BY <2>1, <3>2, <3>3
    <2>3. CASE a # by
      <3>1. mempool'[a] = mempool[a]
        BY <2>3 DEF LiquidityInv
      <3>2. Sent(a)' = Sent(a)
        BY <3>1 DEF Sent
      <3>3. QED
        BY <2>1, <3>1, <3>2
    <2>4. QED
      BY <2>2, <2>3
  <1>3. RemovalPays' /\ lset'.firstIsZero \in BOOLEAN
    BY DEF LiquidityInv, RemovalPays, Floor
  <1>4. QED
    BY <1>1, <1>2, <1>3 DEF LiquidityInv, Protected, Floor

LEMMA LiquidityRests ==
  ASSUME LiquidityInv, UNCHANGED <<lset, mempool, paid>>
  PROVE  LiquidityInv'
  <1>1. \A by \in Account : Sent(by)' = Sent(by)
    BY DEF Sent
  <1>2. RemovalPays'
    BY DEF LiquidityInv, RemovalPays, Floor
  <1>3. QED
    BY <1>1, <1>2 DEF LiquidityInv, Protected, Floor

\* Approvals need no minimum, and the router's calls have the API's.
LEMMA CallStep ==
  ASSUME LiquidityInv, NEW h \in Hand,
         PageAllows(h) \/ ApiAllows(h) \/ PageSends(h) \/ ApiSends(h)
  PROVE  LiquidityInv'
  <1> DEFINE c == move[h]
             chain == IF c.via = "wallet" THEN wallet.chain ELSE "avalanche"
  <1>1. UNCHANGED <<lset, paid>>
    BY DEF PageAllows, ApiAllows, PageSends, ApiSends, Allow, SendCall
  <1>2. CASE PageAllows(h) \/ ApiAllows(h)
    <2> DEFINE need == Head(c.todo)
               tx == [kind |-> "approve", token |-> need.token, amount |-> need.amount]
               m == [on |-> chain, tx |-> tx]
    <2>1. UNCHANGED mempool \/ mempool' = [mempool EXCEPT ![c.by] = Append(mempool[c.by], m)]
      BY <1>2 DEF PageAllows, ApiAllows, Allow, Send
    <2>2. Protected(m.tx)
      BY DEF Protected
    <2> HIDE DEF m
    <2>3. QED
      BY <1>1, <2>1, <2>2, SendStep, LiquidityRests
  <1>3. CASE PageSends(h) \/ ApiSends(h)
    <2> DEFINE m == [on |-> chain, tx |-> Router(c)]
    <2>1. mempool' = [mempool EXCEPT ![c.by] = Append(mempool[c.by], m)]
      BY <1>3 DEF PageSends, ApiSends, SendCall, Send
    <2>2. Protected(m.tx)
      <3>1. CASE c.kind = "add"
        BY <3>1 DEF Protected, Router
      <3>2. CASE c.kind # "add"
        BY <3>2 DEF Protected, Router, Mins
      <3>3. QED
        BY <3>1, <3>2
    <2> HIDE DEF m
    <2>3. QED
      BY <1>1, <2>1, <2>2, SendStep
  <1>4. QED
    BY <1>2, <1>3

\* A removal that is mined pays at least its minima.
LEMMA MinedStep ==
  ASSUME LiquidityInv, NEW by \in Account, Mine(by)
  PROVE  LiquidityInv'
  <1>1. mempool[by] # <<>> /\ lset' = lset
        /\ mempool' = [mempool EXCEPT ![by] = Tail(mempool[by])]
    BY DEF Mine
  <1>2. DOMAIN mempool' = Account
    BY <1>1 DEF LiquidityInv
  <1>3. mempool[by] \in Seq(Sent(by)) /\ \A n \in Sent(by) : Protected(n.tx)
    BY DEF LiquidityInv
  <1>4. ASSUME NEW a \in Account
        PROVE  mempool'[a] \in Seq(Sent(a)') /\ \A n \in Sent(a)' : Protected(n.tx)
    <2>1. mempool[a] \in Seq(Sent(a)) /\ \A n \in Sent(a) : Protected(n.tx)
      BY DEF LiquidityInv
    <2>2. CASE a = by
      <3>1. mempool'[a] = Tail(mempool[a])
        BY <1>1, <2>2 DEF LiquidityInv
      <3>2. mempool'[a] \in Seq(Sent(a)')
        <4> DEFINE q == Tail(mempool[a])
        <4>1. q \in Seq({q[i] : i \in 1 .. Len(q)})
          BY <1>1, <2>1, <2>2, QueueLeft
        <4>2. Sent(a)' = {q[i] : i \in 1 .. Len(q)}
          BY <3>1 DEF Sent
        <4>3. QED
          BY <3>1, <4>1, <4>2
      <3>3. \A n \in Sent(a)' : n \in Sent(a)
        BY <1>1, <2>1, <2>2, <3>1, QueueLeft DEF Sent
      <3>4. QED
        BY <2>1, <3>2, <3>3
    <2>3. CASE a # by
      <3>1. mempool'[a] = mempool[a]
        BY <1>1, <2>3 DEF LiquidityInv
      <3>2. Sent(a)' = Sent(a)
        BY <3>1 DEF Sent
      <3>3. QED
        BY <2>1, <3>1, <3>2
    <2>4. QED
      BY <2>2, <2>3
  <1> DEFINE tx == Head(mempool[by]).tx
  <1>5. Protected(tx)
    BY <1>1, <1>3, QueueLeft DEF Sent
  <1>6. paid' = paid \/
        (/\ tx.kind = "remove" /\ Out(tx, "A") >= tx.minA /\ Out(tx, "B") >= tx.minB
         /\ paid' = [told |-> TRUE, via |-> tx.via, share |-> tx.share,
                     out |-> [i \in 1 .. 2 |-> IF i = 1 + Side("A") THEN Out(tx, "A") ELSE Out(tx, "B")],
                     expected |-> tx.expected])
    <2>1. CASE tx.kind = "remove"
      BY <2>1 DEF Mine, Works
    <2>2. CASE tx.kind \in {"approve", "add"}
      BY <2>2 DEF Mine
    <2>3. QED
      BY <1>5, <2>1, <2>2 DEF Protected
  <1>7. RemovalPays'
    <2>1. CASE paid' = paid
      BY <1>1, <2>1 DEF LiquidityInv, RemovalPays, Floor
    <2>2. CASE paid' # paid
      <3> SUFFICES ASSUME paid'.via = "api", lset.firstIsZero
                   PROVE  \A i \in 1 .. 2 : paid'.out[i] >= Floor(paid'.expected[i])
        BY <1>1 DEF RemovalPays, Floor
      <3>1. Side("A") = 0
        BY DEF Side
      <3>2. /\ paid'.out[1] = Out(tx, "A") /\ paid'.out[2] = Out(tx, "B")
            /\ paid'.expected = tx.expected /\ tx.via = "api"
        BY <1>6, <2>2, <3>1
      <3>3. tx.minA = Floor(tx.expected[1]) /\ tx.minB = Floor(tx.expected[2])
        BY <1>5, <1>6, <2>2, <3>2 DEF Protected
      <3>4. QED
        BY <1>6, <2>2, <3>2, <3>3
    <2>3. QED
      BY <2>1, <2>2
  <1>8. QED
    BY <1>1, <1>2, <1>4, <1>7 DEF LiquidityInv, Protected, Floor

LEMMA LiquidityStep == LiquidityInv /\ [LiquidityNext]_liquidityVars => LiquidityInv'
  <1> SUFFICES ASSUME LiquidityInv, [LiquidityNext]_liquidityVars
               PROVE  LiquidityInv'
    OBVIOUS
  <1>1. ASSUME NEW h \in Hand, PageAllows(h) \/ ApiAllows(h) \/ PageSends(h) \/ ApiSends(h)
        PROVE  LiquidityInv'
    BY <1>1, CallStep
  <1>2. ASSUME NEW by \in Account, Mine(by)
        PROVE  LiquidityInv'
    BY <1>2, MinedStep
  <1>3. CASE \/ Connect \/ Connected \/ Disconnect \/ SwitchToAvalanche
             \/ \E ok \in BOOLEAN : Switched(ok)
             \/ \E u \in User, c \in {"avalanche", "other"} : WalletChooses(u, c)
             \/ \E i \in 1 .. 2 : Swap(i)
             \/ UNCHANGED liquidityVars
    BY <1>3, LiquidityRests DEF Connect, Connected, Disconnect, SwitchToAvalanche, Switched,
       WalletChooses, Swap, liquidityVars
  <1>4. ASSUME NEW h \in Hand,
               \/ \E via \in {"wallet", "api"} :
                    \/ \E a, b \in Amounts : ClickAdd(h, via, a, b)
                    \/ \E share \in Shares : ClickRemove(h, via, share)
               \/ ReadReserves(h) \/ CallFails(h)
        PROVE  LiquidityInv'
    BY <1>4, LiquidityRests DEF ClickAdd, ClickRemove, Clicked, ReadReserves, CallFails
  <1>5. QED
    BY <1>1, <1>2, <1>3, <1>4 DEF LiquidityNext

\* Where token A is token0, a removal through the API pays of either token what
\* the share was worth when the reserves were read, less the slippage, however
\* many others swap, add and remove in between: minima that the pair does not
\* pay any more revert.
THEOREM RemovalsPay == LiquiditySpec => []RemovalPays
  <1>1. LiquidityInv => RemovalPays
    BY DEF LiquidityInv
  <1>2. QED
    BY <1>1, LiquidityStarts, LiquidityStep, PTL DEF LiquiditySpec

-----------------------------------------------------------------------------
(* Logins                                                                   *)

\* The map keeps every attempt that may still count, and those are few enough.
LoginInv ==
  /\ attempts \in [Caller -> SUBSET Login] /\ passed \in [Caller -> SUBSET Login]
  /\ loginAge \in [Login -> 0 .. LoginWindow]
  /\ \A c \in Caller : passed[c] \subseteq Young(attempts[c], loginAge)
  /\ AttemptsLimited

LEMMA LoginsCount ==
  ASSUME NEW S \in SUBSET Login
  PROVE  /\ IsFiniteSet(S) /\ Cardinality(S) \in Nat
         /\ \A T \in SUBSET S : Cardinality(T) <= Cardinality(S)
  <1>1. IsFiniteSet(S)
    BY FS_Subset, LoginAssumption
  <1>2. QED
    BY <1>1, FS_Subset, FS_CardinalityType

LEMMA LoginStarts == LoginInit => LoginInv
  BY FS_EmptySet, LoginAssumption DEF LoginInit, LoginInv, NoAttempts, Young, AttemptsLimited

\* An attempt that gets through finds fewer than allowed, among them all those
\* of the window.
LEMMA AttemptStep ==
  ASSUME LoginInv, NEW c \in Caller, Attempt(c)
  PROVE  LoginInv'
  <1> USE DEF LoginInv
  <1> DEFINE kept == Young(attempts[c], loginAge)
             l == CHOOSE x \in Login \ Remembered : TRUE
  <1>1. /\ Cardinality(kept) < MaxAttempts
        /\ attempts' = [attempts EXCEPT ![c] = kept \cup {l}]
        /\ loginAge' = [loginAge EXCEPT ![l] = 0]
        /\ passed' = [passed EXCEPT ![c] = passed[c] \cup {l}]
    BY DEF Attempt
  <1>2. l \in Login /\ l \notin Remembered
    BY DEF Attempt
  <1>3. passed[c] \subseteq kept /\ kept \subseteq Login
    BY DEF Young
  <1> HIDE DEF l, kept
  <1>4. Cardinality(passed[c]) <= Cardinality(kept)
        /\ Cardinality(passed[c]) \in Nat /\ Cardinality(kept) \in Nat /\ IsFiniteSet(passed[c])
    BY <1>3, LoginsCount
  <1>5. Cardinality(passed[c] \cup {l}) <= MaxAttempts
    <2>1. Cardinality(passed[c] \cup {l}) \in {Cardinality(passed[c]), Cardinality(passed[c]) + 1}
      BY <1>4, FS_AddElement
    <2>2. QED
      BY <1>1, <1>4, <2>1, LoginAssumption
  <1>6. AttemptsLimited'
    BY <1>1, <1>5 DEF AttemptsLimited
  <1>7. /\ attempts' \in [Caller -> SUBSET Login] /\ passed' \in [Caller -> SUBSET Login]
        /\ loginAge' \in [Login -> 0 .. LoginWindow]
    BY <1>1, <1>2, <1>3, LoginAssumption
  <1>8. \A x \in Login : loginAge[x] < LoginWindow => loginAge'[x] < LoginWindow
    BY <1>1, LoginAssumption
  <1>9. \A d \in Caller : passed'[d] \subseteq Young(attempts'[d], loginAge')
    <2>1. loginAge'[l] < LoginWindow
      BY <1>1, <1>2, LoginAssumption
    <2>2. \A x \in kept : loginAge'[x] < LoginWindow
      BY <1>3, <1>8 DEF kept, Young
    <2>3. \A d \in Caller : d # c => attempts'[d] = attempts[d] /\ passed'[d] = passed[d]
      BY <1>1
    <2>4. \A d \in Caller : d # c => passed'[d] \subseteq Young(attempts'[d], loginAge')
      BY <1>8, <2>3 DEF Young
    <2>5. passed'[c] \subseteq Young(attempts'[c], loginAge')
      BY <1>1, <1>3, <2>1, <2>2 DEF Young
    <2>6. QED
      BY <2>4, <2>5
  <1>10. QED
    BY <1>6, <1>7, <1>9 DEF Young

LEMMA LoginStep == LoginInv /\ [LoginNext]_loginVars => LoginInv'
  <1> SUFFICES ASSUME LoginInv, [LoginNext]_loginVars
               PROVE  LoginInv'
    OBVIOUS
  <1> USE DEF LoginInv
  <1>1. ASSUME NEW c \in Caller, Attempt(c)
        PROVE  LoginInv'
    BY <1>1, AttemptStep
  <1>2. ASSUME NEW c \in Caller, Blocked(c)
        PROVE  LoginInv'
    BY <1>2 DEF Blocked, Young, AttemptsLimited
  <1>3. CASE LoginTick
    <2>1. Ages \in [Login -> 0 .. LoginWindow] /\ \A l \in Login : loginAge[l] <= Ages[l]
      BY LoginAssumption DEF Ages
    <2>2. \A S \in SUBSET Login : Young(S, Ages) \subseteq Young(S, loginAge)
      BY <2>1, LoginAssumption DEF Young
    <2>3. /\ loginAge' = Ages /\ passed' = [c \in Caller |-> Young(passed[c], Ages)]
          /\ attempts' = attempts \/ attempts' = [c \in Caller |-> Young(attempts[c], Ages)]
      BY <1>3 DEF LoginTick, Swept
    <2>4. \A c \in Caller : passed'[c] \subseteq passed[c] /\ passed'[c] \subseteq Young(attempts[c], Ages)
      BY <2>3 DEF Young
    <2>5. \A c \in Caller : Young(attempts'[c], loginAge') = Young(attempts[c], Ages)
      BY <2>3 DEF Young
    <2>6. AttemptsLimited'
      <3> SUFFICES ASSUME NEW c \in Caller
                   PROVE  Cardinality(passed'[c]) <= MaxAttempts
        BY DEF AttemptsLimited
      <3>1. passed[c] \in SUBSET Login /\ passed'[c] \in SUBSET passed[c]
        BY <2>4
      <3>2. /\ Cardinality(passed'[c]) <= Cardinality(passed[c])
            /\ Cardinality(passed[c]) \in Nat /\ Cardinality(passed'[c]) \in Nat
        BY <3>1, LoginsCount
      <3>3. QED
        BY <3>2, LoginAssumption DEF AttemptsLimited
    <2>7. /\ attempts' \in [Caller -> SUBSET Login] /\ passed' \in [Caller -> SUBSET Login]
          /\ loginAge' \in [Login -> 0 .. LoginWindow]
      BY <2>1, <2>3 DEF Young
    <2>8. \A c \in Caller : passed'[c] \subseteq Young(attempts'[c], loginAge')
      BY <2>4, <2>5
    <2>9. QED
      BY <2>6, <2>7, <2>8 DEF Young
  <1>4. CASE LoginRestart
    BY <1>4, FS_EmptySet, LoginAssumption DEF LoginRestart, NoAttempts, Young, AttemptsLimited
  <1>5. CASE UNCHANGED loginVars
    BY <1>5 DEF loginVars, Young, AttemptsLimited
  <1>6. QED
    BY <1>1, <1>2, <1>3, <1>4, <1>5 DEF LoginNext

\* However attempts and sweeps fall, one server lets no caller get to the password
\* more often in a window than allowed (isRateLimited).
THEOREM LoginsAreLimited == LoginSpec => []AttemptsLimited
  <1>1. LoginInv => AttemptsLimited
    BY DEF LoginInv
  <1>2. QED
    BY <1>1, LoginStarts, LoginStep, PTL DEF LoginSpec

=============================================================================
