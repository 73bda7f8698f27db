----------------------------- MODULE CallPromise -----------------------------
(***************************************************************************)
(* What a unary call promises its caller, with nothing said of goroutines, *)
(* connections, pools or processes.  A Call makes up to Retries + 1 tries, *)
(* one after the other; the request of a try is handled at most once.      *)
(* Until the deadline only the try the Call waits for may be handled, but  *)
(* for tries whose connection broke: a Call cannot tell what became of     *)
(* those.  Otherwise an error that is not to be tried again is final, and  *)
(* an internal error is reported of a Call that has begun only when every  *)
(* try has been used.  What handlers answer is never mixed up: a success   *)
(* or a final error is that of the last try's handler.                     *)
(***************************************************************************)
EXTENDS Naturals

CONSTANTS
    Calls,
    Retries

VARIABLES
    phase,      \* of a Call: idle, waiting, returned
    late,       \* its deadline has passed
    try,        \* the number of its last try
    ran,        \* how the handler of a try ended
    lost,       \* tries whose connection broke
    reply       \* what the Call returned

promiseVars == <<phase, late, try, ran, lost, reply>>

Init ==
    /\ phase = [k \in Calls |-> "idle"]
    /\ late = [k \in Calls |-> FALSE]
    /\ try = [k \in Calls |-> 0]
    /\ ran = [a \in Calls \X (0 .. Retries) |-> "no"]
    /\ lost = {}
    /\ reply = [k \in Calls |-> "none"]

Last(k) == ran[<<k, try[k]>>]

Begin(k) ==
    /\ phase[k] = "idle"
    /\ phase' = [phase EXCEPT ![k] = "waiting"]
    /\ UNCHANGED <<late, try, ran, lost, reply>>

(* A Call for which no node can be selected, or that comes too late, makes *)
(* no try.                                                                 *)
Refuse(k) ==
    /\ phase[k] = "idle"
    /\ phase' = [phase EXCEPT ![k] = "returned"]
    /\ \E kind \in {"notfound", "internal", "timeout"} : reply' = [reply EXCEPT ![k] = kind]
    /\ UNCHANGED <<late, try, ran, lost>>

Expire(k) ==
    /\ phase[k] = "waiting"
    /\ late' = [late EXCEPT ![k] = TRUE]
    /\ UNCHANGED <<phase, try, ran, lost, reply>>

(* The connection of a try breaks.                                         *)
Lose(k, i) ==
    /\ phase[k] # "idle" /\ i <= try[k]
    /\ lost' = lost \cup {<<k, i>>}
    /\ UNCHANGED <<phase, late, try, ran, reply>>

Handle(k, i) ==
    /\ phase[k] # "idle" /\ i <= try[k]
    /\ ran[<<k, i>>] = "no"
    /\ ~late[k] /\ <<k, i>> \notin lost => phase[k] = "waiting" /\ i = try[k]
    /\ \E kind \in {"ok", "app", "internal"} : ran' = [ran EXCEPT ![<<k, i>>] = kind]
    /\ UNCHANGED <<phase, late, try, lost, reply>>

Final(k) == ~late[k] /\ <<k, try[k]>> \notin lost /\ Last(k) = "app"

Retry(k) ==
    /\ phase[k] = "waiting"
    /\ try[k] < Retries
    /\ ~Final(k)
    /\ try' = [try EXCEPT ![k] = @ + 1]
    /\ UNCHANGED <<phase, late, ran, lost, reply>>

MayReport(k, kind) ==
    \/ kind \in {"ok", "app"} /\ Last(k) = kind
    \/ kind = "timeout" /\ late[k]
    \/ kind = "internal" /\ try[k] = Retries /\ ~Final(k)

Report(k) ==
    /\ phase[k] = "waiting"
    /\ phase' = [phase EXCEPT ![k] = "returned"]
    /\ \E kind \in {"ok", "app", "timeout", "internal"} :
         MayReport(k, kind) /\ reply' = [reply EXCEPT ![k] = kind]
    /\ UNCHANGED <<late, try, ran, lost>>

Next == \E k \in Calls :
    \/ Begin(k) \/ Refuse(k) \/ Expire(k) \/ Retry(k) \/ Report(k)
    \/ \E i \in 0 .. Retries : Handle(k, i) \/ Lose(k, i)

Spec == Init /\ [][Next]_promiseVars
=============================================================================
