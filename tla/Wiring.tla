------------------------------- MODULE Wiring -------------------------------
(***************************************************************************)
(* Boot of a v6 process: the organization's credentials are put into the   *)
(* environment (infrastructure/credentials.py), the adapters whose keys    *)
(* are there are registered (providers/bootstrap.py, registry.py), then    *)
(* capabilities are called over the adapters in order of priority, each    *)
(* with a pool of keys that rotates. The ledger behind a call is that of   *)
(* module EffectLedger.                                                    *)
(***************************************************************************)
EXTENDS Naturals, Sequences, FiniteSets

CONSTANTS
    Vars,     \* environment variables that hold key pools
    MaxKeys,  \* bound: keys in a pool
    Files,    \* contents of config/providers.yaml: sequences of entries
    Modes,  \* values of LEAD_ENGINE_V6_PROVIDERS
    MaxCalls  \* bound: calls of a process

ASSUME WiringAssumption == MaxKeys \in Nat

VARIABLES
    boot,   \* how far the boot is, its mode, what hydration reported (and, as a
            \* history, the variables set by hand)
    env,    \* per variable: number of keys and where the value is from
    wired,  \* the adapters by the place they were registered at, a list and a
            \* position in it, each with its pool's index
    call    \* the call under way

wiringVars == <<boot, env, wired, call>>

Adapter(id, cap, priority, var) ==
    [id |-> id, cap |-> cap, priority |-> priority, var |-> var, index |-> 1]

Demo == <<Adapter("demo-search", "search", 90, "none"),
          Adapter("demo-verify", "verify", 90, "none"),
          Adapter("demo-contact", "contact", 90, "none")>>
Vendors == <<Adapter("tavily", "search", 10, "TAVILY"), Adapter("exa", "search", 20, "EXA"),
             Adapter("smtp-verify", "verify", 10, "none"),
             Adapter("apollo", "contact", 10, "APOLLO"),
             Adapter("hunter", "contact", 20, "HUNTER"),
             Adapter("hunter-verify", "verify", 20, "HUNTER")>>
Gemini == Adapter("gemini", "reasoning", 10, "GEMINI")
FakeModels == <<Adapter("fake", "reasoning", 99, "none"), Adapter("fake", "planning", 100, "none")>>
ModelCaps == {"reasoning", "planning"}
Builtins == {"tavily", "exa", "smtp-verify", "apollo", "hunter", "hunter-verify", "gemini"}

NoRequest == [cap |-> "none", asked |-> {}, answer |-> "none", n |-> 0,
           refused |-> {}, spent |-> {}]
Unset == [keys |-> 0, from |-> "none"]

WiringInit ==
    /\ env \in [Vars -> {Unset, [keys |-> MaxKeys, from |-> "explicit"]}]
    /\ \E choice \in Modes, file \in Files :
         boot = [at |-> "start", choice |-> choice, file |-> file, mode |-> "none",
                 reason |-> "none", loaded |-> {}, kept |-> {}, bad |-> {},
                 hand |-> {v \in Vars : env[v].keys > 0}]
    /\ wired = <<>> /\ call = NoRequest

Keys(var) == IF var \in Vars THEN env[var].keys ELSE 0

(***************************************************************************)
(* hydrate_environment: no failure stops the boot; each has a reason.      *)
(***************************************************************************)
HydrateFails ==
    /\ boot.at = "start"
    /\ \E reason \in {"no org", "no key", "bad key", "unreadable"} :
         boot' = [boot EXCEPT !.at = "hydrated", !.reason = reason]
    /\ UNCHANGED <<env, wired, call>>

\* Mutant of Keeps: the row of the store is taken whatever is set.
KeepsNothing(v, row) == FALSE

\* An explicit value is kept, unless the row holds the very same.
Keeps(v, row) == env[v].keys > 0 /\ row # "same"

Hydrate ==
    /\ boot.at = "start"
    /\ \E rows \in [Vars -> {"absent", "bad", "empty", "same", "other"}] :
         LET good == {v \in Vars : rows[v] \in {"same", "other"}}
             kept == {v \in good : Keeps(v, rows[v])}
         IN  /\ boot' = [boot EXCEPT !.at = "hydrated", !.loaded = good \ kept, !.kept = kept,
                            !.bad = {v \in Vars : rows[v] = "bad"}]
             /\ \E keys \in 1..MaxKeys :
                  env' = [v \in Vars |->
                      IF v \notin good \ kept \/ (rows[v] = "same" /\ env[v].keys > 0) THEN env[v]
                      ELSE [keys |-> keys, from |-> "stored"]]
    /\ UNCHANGED <<wired, call>>

(***************************************************************************)
(* build_gateway, build_model_gateway and what the file adds to them.      *)
(***************************************************************************)
Mode == IF boot.choice # "auto" THEN boot.choice
        ELSE IF Keys("TAVILY") + Keys("EXA") > 0 THEN "real" ELSE "demo"

HasKeys(a) == a.var = "none" \/ Keys(a.var) > 0

\* The adapters of a list at some of its positions.
From(list, adapters, positions) == [p \in {list} \X positions |-> adapters[p[2]]]

Joined(f, g) == [p \in DOMAIN f \cup DOMAIN g |-> IF p \in DOMAIN f THEN f[p] ELSE g[p]]

WithKeys(list, adapters) ==
    From(list, adapters, {k \in DOMAIN adapters : HasKeys(adapters[k])})

Shipped == WithKeys(1, CASE Mode = "demo" -> Demo [] Mode = "real" -> Vendors [] OTHER -> <<>>)
ShippedModels == WithKeys(3, <<Gemini>> \o FakeModels)

\* The entries looked at. Those of providers whose id is registered already are
\* left out, but only with a gateway: the models are built without one.
FileEntries(isModel) ==
    {k \in DOMAIN boot.file :
        isModel \/ /\ boot.file[k].cap \notin ModelCaps
                   /\ \A i \in DOMAIN Shipped : Shipped[i].id # boot.file[k].id}

\* _validate looks at every entry before any is registered; that a builtin
\* exists is found out when it is registered.
Malformed(entries) == \E k \in entries : boot.file[k].kind = "typo"
Unknown(e) == e.kind = "builtin" /\ e.id \notin Builtins
Usable(e) == e.enabled /\ HasKeys(e)

Rejects(entries) ==
    Malformed(entries) \/ \E k \in entries : Unknown(boot.file[k]) /\ Usable(boot.file[k])

Registered(isModel) ==
    From(IF isModel THEN 4 ELSE 2,
         [k \in DOMAIN boot.file |-> LET e == boot.file[k]
                                     IN  Adapter(e.id, e.cap, e.priority, e.var)],
         {k \in FileEntries(isModel) :
             Usable(boot.file[k]) /\ (boot.file[k].cap \in ModelCaps) = isModel})

BuildGateway ==
    /\ boot.at = "hydrated"
    /\ IF Rejects(FileEntries(FALSE))
       THEN boot' = [boot EXCEPT !.at = "failed", !.mode = Mode] /\ UNCHANGED wired
       ELSE /\ boot' = [boot EXCEPT !.at = "gateway", !.mode = Mode]
            /\ wired' = Joined(Shipped, Registered(FALSE))
    /\ UNCHANGED <<env, call>>

BuildModelGateway ==
    /\ boot.at = "gateway"
    /\ IF Rejects(FileEntries(TRUE))
       THEN boot' = [boot EXCEPT !.at = "failed"] /\ UNCHANGED wired
       ELSE /\ boot' = [boot EXCEPT !.at = "up"]
            /\ wired' = Joined(wired, Joined(ShippedModels, Registered(TRUE)))
    /\ UNCHANGED <<env, call>>

(***************************************************************************)
(* Calls: adapters by priority, those registered first among equals.       *)
(***************************************************************************)
Waterfall(cap) == {i \in DOMAIN wired : wired[i].cap = cap}

Before(i, j) ==
    \/ wired[i].priority < wired[j].priority
    \/ /\ wired[i].priority = wired[j].priority
       /\ i[1] < j[1] \/ (i[1] = j[1] /\ i[2] < j[2])

\* The adapters a call has left, and the one that is next.
Left == Waterfall(call.cap) \ call.asked
Current(i) == call.cap # "none" /\ i \in Left /\ \A j \in Left : ~Before(j, i)

Begin(cap) ==
    /\ boot.at = "up" /\ call.cap = "none" /\ call.n < MaxCalls
    /\ call' = [call EXCEPT !.cap = cap, !.asked = {}, !.answer = "none", !.n = @ + 1]
    /\ UNCHANGED <<boot, env, wired>>

Ends(answer) == call' = [call EXCEPT !.cap = "none", !.answer = answer]

\* AUTH, VALIDATION and whatever has no class end the call; a model that fails,
\* however it does, is passed over.
GoesOn(failure) ==
    \/ call.cap \in ModelCaps
    \/ failure \in {"RATE_LIMIT", "CAPACITY", "TRANSIENT", "AMBIGUOUS"}

Fails(i, failure, gaveUp, refused) ==
    LET c == [call EXCEPT !.refused = refused, !.spent = @ \cup gaveUp, !.asked = @ \cup {i}]
    IN  call' = IF GoesOn(failure) THEN c ELSE [c EXCEPT !.cap = "none", !.answer = failure]

OutOfAdapters ==
    /\ call.cap # "none" /\ Left = {}
    /\ Ends("CAPACITY") /\ UNCHANGED <<boot, env, wired>>

\* Demo providers and fake models answer; the SMTP probe has an answer for every address.
AskKeyless(i) ==
    /\ Current(i) /\ wired[i].var = "none"
    /\ \E answer \in IF wired[i].id = "smtp-verify"
                     THEN {"DELIVERABLE", "CATCH_ALL", "INVALID", "UNKNOWN"} ELSE {"ok"} :
         call' = [call EXCEPT !.cap = "none", !.answer = answer, !.asked = @ \cup {i}]
    /\ UNCHANGED <<boot, env, wired>>

AskOk(i) ==
    /\ Current(i) /\ wired[i].var # "none"
    /\ call' = [call EXCEPT !.cap = "none", !.answer = "ok", !.asked = @ \cup {i}]
    /\ UNCHANGED <<boot, env, wired>>

\* Mutant of HasNext: the last key of the pool is left out.
HasNextLess(a) == a.index + 1 < Keys(a.var)

HasNext(a) == a.index < Keys(a.var)

\* 401, 403 and 429 rotate the pool, which never turns back; at its last key
\* the status is a failure of the adapter.
AskRefused(i) ==
    /\ Current(i) /\ wired[i].var # "none"
    /\ \E failure \in {"AUTH", "RATE_LIMIT"} :
         LET refused == call.refused \cup {<<i, wired[i].index>>}
         IN  IF HasNext(wired[i])
             THEN /\ wired' = [wired EXCEPT ![i].index = @ + 1]
                  /\ call' = [call EXCEPT !.refused = refused]
             ELSE Fails(i, failure, {i}, refused) /\ UNCHANGED wired
    /\ UNCHANGED <<boot, env>>

\* Other statuses and errors of the line, as they are classified.
AskFailed(i) ==
    /\ Current(i) /\ wired[i].var # "none"
    /\ \E failure \in {"CAPACITY", "TRANSIENT", "AMBIGUOUS", "VALIDATION"} :
         Fails(i, failure, {}, call.refused)
    /\ UNCHANGED <<boot, env, wired>>

WiringNext ==
    \/ HydrateFails \/ Hydrate \/ BuildGateway \/ BuildModelGateway
    \/ \E cap \in {"search", "verify", "contact", "reasoning", "planning"} : Begin(cap)
    \/ OutOfAdapters
    \/ \E i \in Left : AskKeyless(i) \/ AskOk(i) \/ AskRefused(i) \/ AskFailed(i)

WiringSpec == WiringInit /\ [][WiringNext]_wiringVars

(***************************************************************************)
(* Properties.                                                             *)
(***************************************************************************)
\* No key is wasted: whatever the calls before, an adapter's pool only moves
\* past keys that were refused, and an adapter is given up for a refusal only
\* when every key of its pool has been refused. What an operator sets by hand
\* stands whatever the store holds, hydration names what it did load, and a
\* process that was told to use real providers never asks one of the demo
\* providers (an adapter of the file is none of them, whatever its id). Of models
\* this is not so: FakeModel is registered last in every mode (bootstrap.py:133).
KeysAreUsed ==
    /\ \A i \in DOMAIN wired : \A k \in 1..(wired[i].index - 1) : <<i, k>> \in call.refused
    /\ \A i \in call.spent : \A k \in 1..Keys(wired[i].var) : <<i, k>> \in call.refused
    /\ \A v \in boot.hand : env[v].from = "explicit"
    /\ {v \in Vars : env[v].from = "stored"} \subseteq boot.loaded
    /\ boot.mode = "real" =>
         \A i \in call.asked : i[1] = 1 => wired[i].id \notin {Demo[d].id : d \in 1..3}

\* Not so: an address that the SMTP probe cannot tell, or of a catch-all
\* domain, gets "a real second opinion" where Hunter is configured.
SecondOpinion ==
    (call.cap = "none" /\ call.answer \in {"CATCH_ALL", "UNKNOWN"}) =>
        \A i \in DOMAIN wired : wired[i].id = "hunter-verify" => i \in call.asked

\* Not so: a process told to use real providers only, without keys, comes up.
RealFailsLoudly == (boot.at = "up" /\ boot.mode = "real") => Waterfall("search") # {}

\* Not so for models: an entry of the file for a builtin never duplicates it.
NeverDuplicates ==
    \A i, j \in DOMAIN wired :
        (wired[i].id = wired[j].id /\ wired[i].id # "fake") => i = j

=============================================================================
