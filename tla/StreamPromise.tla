---------------------------- MODULE StreamPromise ----------------------------
(***************************************************************************)
(* What a server stream promises its reader, as GetStreamValues in         *)
(* example2/cli/main.go relies on it: the values arrive in the order the   *)
(* handler sent them, and the reader sees the end of the stream (io.EOF)   *)
(* only after the last of them.  A stream may break at any point, and then *)
(* it ends with an error.                                                  *)
(***************************************************************************)
EXTENDS Integers, Sequences

CONSTANT Count      \* values the handler sends

VARIABLES got,      \* the values the reader has received
          status    \* reading, eof or broken

Init == got = <<>> /\ status = "reading"

Deliver ==
    /\ status = "reading"
    /\ Len(got) < Count
    /\ got' = Append(got, Len(got) + 1)
    /\ UNCHANGED status

End ==
    /\ status = "reading"
    /\ Len(got) = Count
    /\ status' = "eof"
    /\ UNCHANGED got

Break ==
    /\ status = "reading"
    /\ status' = "broken"
    /\ UNCHANGED got

Next == Deliver \/ End \/ Break

Spec == Init /\ [][Next]_<<got, status>>
=============================================================================
