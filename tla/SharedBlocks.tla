---------------------------- MODULE SharedBlocks ----------------------------
(* What the buffer cache promises: blocks that keep what was last written to   *)
(* them and that one process at a time may use, between bread and brelse.      *)

CONSTANTS Proc, Sector, Value

VARIABLES content,  \* what the next one to read the sector will find
          users     \* who may use each sector

Init == /\ content \in [Sector -> Value]
        /\ users = [s \in Sector |-> {}]

Take(p, s) == /\ users[s] = {}
              /\ users' = [users EXCEPT ![s] = {p}]
              /\ UNCHANGED content

Write(p, s, v) == /\ users[s] = {p}
                  /\ content' = [content EXCEPT ![s] = v]
                  /\ UNCHANGED users

Give(p, s) == /\ users[s] = {p}
              /\ users' = [users EXCEPT ![s] = {}]
              /\ UNCHANGED content

Next == \E p \in Proc, s \in Sector : \/ Take(p, s)
                                      \/ \E v \in Value : Write(p, s, v)
                                      \/ Give(p, s)

Spec == Init /\ [][Next]_<<content, users>>
=============================================================================
