---------------------------- MODULE BlockDevice ----------------------------
(***************************************************************************)
(* What an encrypted drive or volume promises the file system above it.    *)
(* Requests are accepted concurrently and served in pieces: any part of an *)
(* accepted request may be transferred at any moment, but a request that   *)
(* is answered with success has been transferred completely, one that is   *)
(* refused or failed has transferred a subset, and what is transferred is  *)
(* plaintext.  Encryption, fragmentation, read-ahead, threads, and the     *)
(* in-place encryption running below are all invisible at this level.      *)
(***************************************************************************)
EXTENDS Integers

CONSTANTS
    Irps,       \* the I/O requests the file system may issue
    Sectors,    \* the sectors of the device
    Initial,    \* [Sectors -> data]: what the device holds at first
    NoData      \* "not read yet"

VARIABLES
    content,    \* [Sectors -> data]: the plaintext each sector holds
    request     \* [Irps -> record]: what has become of each request

vars == <<content, request>>

(* The data IRP i writes to sector s *)
Written(i, s) == [writer |-> i, sector |-> s]

Request(state, write, todo, data) == [state |-> state, write |-> write, todo |-> todo, data |-> data]
NothingRead == [s \in Sectors |-> NoData]
Unissued == Request("unissued", FALSE, {}, NothingRead)

Init ==
    /\ content = Initial
    /\ request = [i \in Irps |-> Unissued]

Issue(i) ==
    /\ request[i] = Unissued
    /\ \E S \in SUBSET Sectors, w \in BOOLEAN :
          request' = [request EXCEPT ![i] = Request("ok", w, S, NothingRead)]
    /\ UNCHANGED content

Transfer(i, S) ==
    /\ request[i].state = "ok"
    /\ S \subseteq request[i].todo
    /\ IF request[i].write
       THEN /\ content' = [s \in Sectors |-> IF s \in S THEN Written(i, s) ELSE content[s]]
            /\ request' = [request EXCEPT ![i].todo = @ \ S]
       ELSE /\ request' = [request EXCEPT ![i] = Request("ok", FALSE, @.todo \ S,
                                                       [s \in Sectors |-> IF s \in S THEN content[s] ELSE @.data[s]])]
            /\ UNCHANGED content

(* The device fails, possibly after transferring a part, or the request is refused *)
Fail(i, S) ==
    /\ request[i].state = "ok"
    /\ S \subseteq request[i].todo
    /\ content' = [s \in Sectors |-> IF s \in S /\ request[i].write THEN Written(i, s) ELSE content[s]]
    /\ request' = [request EXCEPT ![i] = Request("failed", FALSE, {}, NothingRead)]

Succeed(i) ==
    /\ request[i].state = "ok"
    /\ request[i].todo = {}
    /\ request' = [request EXCEPT ![i].state = "done"]
    /\ UNCHANGED content

Next ==
    \E i \in Irps :
        \/ Issue(i)
        \/ \E S \in SUBSET request[i].todo : Transfer(i, S) \/ Fail(i, S)
        \/ Succeed(i)

Spec == Init /\ [][Next]_vars
=============================================================================
