------------------------------- MODULE PamProofs ------------------------------
(***************************************************************************)
(* What PAM runs and what sets it up: the client of pam_sm_authenticate,   *)
(* and the set-up script of the PAM services.                              *)
(*                                                                         *)
(* For every timeout, grain of the clock and number of parts, the client   *)
(* waits less than a millisecond beyond its deadline, asks the daemon for  *)
(* a timeout it accepts, and returns success only for a success record.    *)
(*                                                                         *)
(* The script is proved for any number of calls, kills and failing         *)
(* commands.  Its inductive invariant says, per step, what its variables   *)
(* know of the state at the call: what is on one of its lists is what it   *)
(* changed, and what is not is as it was, unless a command of the rollback *)
(* failed.                                                                 *)
(***************************************************************************)
EXTENDS PamClient, PamSetup, SequenceTheorems, TLAPS

(* Rounding up to whole milliseconds adds less than a millisecond, and is   *)
(* never zero for a time that is left.                                      *)
LEMMA RoundedUp ==
    ASSUME NEW x \in Nat \ {0}, NEW g \in Nat \ {0}
    PROVE  LET q == (x + g - 1) \div g
           IN  q \in Nat \ {0} /\ x <= q * g /\ q * g < x + g
<1> DEFINE q == (x + g - 1) \div g
<1>1. q \in Int /\ q * g <= x + g - 1 /\ x + g - 1 < (q + 1) * g
  BY Z3
<1>2. (q + 1) * g = q * g + g
  BY <1>1, Z3
<1>3. x <= q * g /\ q * g < x + g
  BY <1>1, <1>2, Z3
<1>4. q \in Nat \ {0}
  BY <1>1, <1>3, Z3
<1> QED
  BY <1>3, <1>4

(* A whole number of milliseconds that ends less than one after m is at     *)
(* most m.                                                                  *)
LEMMA WholeMilliseconds ==
    ASSUME NEW q \in Nat, NEW m \in Nat, NEW g \in Nat \ {0}, q * g < m * g + g
    PROVE  q <= m
<1>1. CASE q >= m + 1
  <2>1. PICK d \in Nat : q = m + 1 + d
    <3>1. q - (m + 1) \in Nat /\ q = m + 1 + (q - (m + 1))
      BY <1>1
    <3> QED
      BY <3>1
  <2>2. q * g = m * g + g + d * g
    BY <2>1, Z3
  <2>3. m * g \in Nat /\ d * g \in Nat /\ q * g \in Nat
    BY Z3
  <2> QED
    BY <2>2, <2>3
<1> QED
  BY <1>1

(* The inductive invariant: a poll under way ends less than a millisecond   *)
(* after the deadline, and time does not pass the end of the poll.          *)
Timely ==
    /\ now \in Nat /\ deadline \in Nat \cup {None} /\ wake \in Nat \cup {None}
    /\ pc = "begin" => now = 0 /\ wake = None
    /\ pc \notin {"begin", "done"} => deadline # None
    /\ deadline # None => deadline = MAX_TIMEOUT_MS * Grain /\ now < deadline + Grain
    /\ wake # None => deadline # None /\ now <= wake /\ wake < deadline + Grain
    /\ asked # None => asked \in 1..MAX_TIMEOUT_MS

(* What is left before the deadline, in milliseconds. *)
LEMMA Remaining ==
    ASSUME Timely, deadline # None, ~TimedOut
    PROVE  /\ remaining_timeout_ms \in 1..MAX_TIMEOUT_MS
           /\ now + remaining_timeout_ms * Grain \in Nat
           /\ now <= now + remaining_timeout_ms * Grain
           /\ now + remaining_timeout_ms * Grain < deadline + Grain
<1> DEFINE x == deadline - now
           q == (x + Grain - 1) \div Grain
<1>1. now \in Nat /\ deadline \in Nat /\ deadline = MAX_TIMEOUT_MS * Grain /\ now < deadline
  BY DEF Timely, TimedOut
<1>2. x \in Nat \ {0} /\ x <= MAX_TIMEOUT_MS * Grain /\ Grain \in Nat \ {0} /\ MAX_TIMEOUT_MS \in Nat
  BY <1>1, Bounds
<1>3. q \in Nat \ {0} /\ x <= q * Grain /\ q * Grain < x + Grain
  <2> HIDE DEF x
  <2> QED
    BY <1>2, RoundedUp
<1>4. q * Grain \in Nat
  <2> HIDE DEF q
  <2> QED
    BY <1>2, <1>3, Z3
<1>5. q <= MAX_TIMEOUT_MS
  <2>1. MAX_TIMEOUT_MS * Grain \in Nat
    BY <1>1
  <2>2. q * Grain < MAX_TIMEOUT_MS * Grain + Grain
    <3> DEFINE a == q * Grain
               b == MAX_TIMEOUT_MS * Grain
    <3>1. a \in Nat /\ b \in Nat /\ a < x + Grain /\ x <= b /\ x \in Nat /\ Grain \in Nat
      BY <1>2, <1>3, <1>4, <2>1
    <3> HIDE DEF a, b, x
    <3>2. a < b + Grain
      BY <3>1
    <3> QED
      BY <3>2 DEF a, b
  <2> HIDE DEF q
  <2> QED
    BY <1>2, <1>3, <2>2, WholeMilliseconds
<1>6. remaining_timeout_ms = q
  BY DEF remaining_timeout_ms
<1>7. q \in 1..MAX_TIMEOUT_MS
  <2> HIDE DEF q
  <2> QED
    BY <1>2, <1>3, <1>5
<1>8. now + q * Grain \in Nat /\ now <= now + q * Grain /\ now + q * Grain < deadline + Grain
  <2> DEFINE a == q * Grain
  <2>1. a \in Nat /\ a < (deadline - now) + Grain
    BY <1>3, <1>4
  <2> HIDE DEF a
  <2>2. now + a \in Nat /\ now <= now + a /\ now + a < deadline + Grain
    BY <1>1, <1>2, <2>1
  <2> QED
    BY <2>2 DEF a
<1> QED
  BY <1>6, <1>7, <1>8

(* Time, deadline and request are untouched by an answer. *)
LEMMA Finished ==
    ASSUME Timely, NEW r, NEW st, finish(r, st)
    PROVE  Timely'
BY DEF Timely, finish

LEMMA TimelyInit == Init => Timely
BY DEF Init, Timely

LEMMA TimelyStep == Timely /\ [Next]_vars => Timely'
<1> SUFFICES ASSUME Timely, [Next]_vars
             PROVE  Timely'
  OBVIOUS
<1> USE DEF fail_with_status, daemon_unavailable
<1>1. CASE Begin
  <2>1. CASE deadline' = now + MAX_TIMEOUT_MS * Grain /\ pc' = "connect" /\ UNCHANGED <<now, wake, asked>>
    <3>1. MAX_TIMEOUT_MS * Grain \in Nat
      BY Bounds, Z3
    <3>2. now = 0 /\ wake = None
      BY <1>1, <2>1 DEF Timely, Begin
    <3> QED
      BY <2>1, <3>1, <3>2, Bounds DEF Timely
  <2> QED
    BY <1>1, <2>1, Finished DEF Begin
<1>2. CASE Connect
  BY <1>2, Finished DEF Connect, Timely
<1>3. CASE Wait
  <2>1. deadline # None
    BY <1>3 DEF Wait, Waits, Timely
  <2>2. CASE ~TimedOut /\ wake' = now + remaining_timeout_ms * Grain /\ UNCHANGED <<now, deadline, pc, asked>>
    <3> DEFINE end == now + remaining_timeout_ms * Grain
    <3>1. end \in Nat /\ now <= end /\ end < deadline + Grain
      BY <2>1, <2>2, Remaining
    <3>2. wake' = end
      BY <2>2
    <3> HIDE DEF end
    <3>3. pc # "begin"
      BY <1>3 DEF Wait, Waits
    <3> QED
      BY <2>1, <2>2, <3>1, <3>2, <3>3 DEF Timely
  <2> QED
    BY <1>3, <2>2, Finished DEF Wait
<1>4. CASE PollTimeout
  BY <1>4, Finished DEF PollTimeout
<1>5. CASE Interrupted
  BY <1>5 DEF Interrupted, Timely
<1>6. CASE Writable
  BY <1>6, Finished DEF Writable, Timely
<1>7. CASE Request
  <2>1. CASE ~TimedOut /\ pc' = "send" /\ asked' = remaining_timeout_ms /\ UNCHANGED <<now, deadline, wake>>
    <3>1. deadline # None
      BY <1>7 DEF Request, Timely
    <3>2. asked' \in 1..MAX_TIMEOUT_MS
      BY <2>1, <3>1, Remaining
    <3> QED
      BY <2>1, <3>1, <3>2 DEF Timely
  <2> QED
    BY <1>7, <2>1, Finished DEF Request
<1>8. CASE Read
  <2>1. pc \in {"header", "body"} /\ pc' \in {"header", "body", "done"} /\ wake' = None
        /\ UNCHANGED <<now, deadline, asked>>
    BY <1>8 DEF Read, Judge
  <2> QED
    BY <2>1 DEF Timely
<1>9. CASE ReadEnd
  BY <1>9, Finished DEF ReadEnd
<1>10. CASE Drip \/ Close \/ UNCHANGED vars
  BY <1>10 DEF Drip, Close, vars, client, Timely
<1>11. CASE Tick
  <2>1. wake # None /\ now < wake /\ now' = now + 1 /\ UNCHANGED <<deadline, pc, wake, asked>>
    BY <1>11 DEF Tick, client
  <2> QED
    BY <2>1, Bounds DEF Timely
<1> QED
  BY <1>1, <1>2, <1>3, <1>4, <1>5, <1>6, <1>7, <1>8, <1>9, <1>10, <1>11 DEF Next

(* Connecting, sending and all reads share one deadline, which no wait      *)
(* overruns by a millisecond (wait_for_fd, remaining_timeout_ms), for every *)
(* timeout and every grain of the clock.                                    *)
THEOREM ClientKeepsDeadline == Spec => []OneDeadline
<1>1. Timely => OneDeadline
  BY DEF Timely, OneDeadline
<1> QED
  BY <1>1, TimelyInit, TimelyStep, PTL DEF Spec

(* The daemon is asked for at least one and at most MAX_TIMEOUT_MS           *)
(* milliseconds, whenever the request is made (pam_sm_authenticate).         *)
THEOREM ClientAsksValidTimeout == Spec => []AskedIsValid
<1>1. Timely => AskedIsValid
  BY DEF Timely, AskedIsValid
<1> QED
  BY <1>1, TimelyInit, TimelyStep, PTL DEF Spec

(* The record of which the client is reading a part, and the one of which   *)
(* the daemon is writing a part, begin at the same multiple of a record's   *)
(* parts.  The remainders below count the parts of a record.                *)
LEMMA Remainder ==
    ASSUME NEW a \in Nat, NEW d \in Nat \ {0}, NEW q \in Nat, NEW s \in 0..(d - 1), a = q * d + s
    PROVE  a % d = s
BY Z3

LEMMA Quotient ==
    ASSUME NEW a \in Nat, NEW d \in Nat \ {0}
    PROVE  /\ (a % d) \in 0..(d - 1)
           /\ \E q \in Nat : a = q * d + (a % d)
<1>1. (a % d) \in 0..(d - 1)
  BY Z3
<1>2. a \div d \in Nat /\ a = (a \div d) * d + (a % d)
  BY Z3
<1> QED
  BY <1>1, <1>2

LEMMA RemainderOfSum ==
    ASSUME NEW a \in Nat, NEW d \in Nat \ {0}
    PROVE  (a + d) % d = a % d
<1> DEFINE s == a % d
<1>1. PICK q \in Nat : a = q * d + s
  BY Quotient
<1>2. s \in 0..(d - 1)
  BY Quotient
<1> HIDE DEF s
<1>3. a + d = (q + 1) * d + s /\ a + d \in Nat /\ q + 1 \in Nat
  BY <1>1, <1>2, Z3
<1>4. (a + d) % d = s
  BY <1>2, <1>3, Remainder
<1> QED
  BY <1>4 DEF s

LEMMA RemainderOfSuccessor ==
    ASSUME NEW a \in Nat, NEW d \in Nat \ {0}
    PROVE  (a + 1) % d = IF a % d = d - 1 THEN 0 ELSE (a % d) + 1
<1> DEFINE s == a % d
<1>1. PICK q \in Nat : a = q * d + s
  BY Quotient
<1>2. s \in 0..(d - 1) /\ a + 1 \in Nat /\ q + 1 \in Nat
  BY Quotient
<1> HIDE DEF s
<1>3. CASE s = d - 1
  <2>1. a + 1 = (q + 1) * d + 0 /\ 0 \in 0..(d - 1)
    BY <1>1, <1>2, <1>3, Z3
  <2>2. (a + 1) % d = 0
    BY <1>2, <2>1, Remainder
  <2> QED
    BY <1>3, <2>2 DEF s
<1>4. CASE s # d - 1
  <2> DEFINE t == s + 1
  <2>1. a + 1 = q * d + t /\ t \in 0..(d - 1)
    BY <1>1, <1>2, <1>4, Z3
  <2> HIDE DEF t
  <2>2. (a + 1) % d = t
    BY <1>2, <2>1, Remainder
  <2> QED
    BY <1>4, <2>2 DEF s, t
<1> QED
  BY <1>3, <1>4

(* Parts of a record that the client has read, and the daemon written.      *)
Record == 2 * Parts
Taken == IF pc = "body" THEN Parts + total ELSE total
Written == IF reply = None THEN 0 ELSE reply.parts

(* The inductive invariant: the parts on the wire continue the record the   *)
(* client is reading and end in the one the daemon is writing, and a part   *)
(* that completes a success record is there only if the daemon granted it.  *)
Aligned ==
    /\ wire \in Seq(Codes \cup Malformed)
    /\ reply = None \/ reply \in [code : Codes \cup Malformed, parts : 1..(Record - 1)]
    /\ pc \in {"begin", "connect", "request", "send"} => wire = <<>> /\ reply = None
    /\ pc \in {"header", "body"} =>
          /\ total \in 0..(Parts - 1)
          /\ (Taken + Len(wire)) % Record = Written
          /\ \A i \in 1..Len(wire) :
                (Taken + i - 1) % Record = Record - 1 /\ wire[i] = "success" => granted
    /\ SuccessIsGranted

LEMMA AlignedInit == Init => Aligned
BY Bounds DEF Init, Aligned, SuccessIsGranted

(* What ends or waits reads nothing. *)
LEMMA AlignedQuiet ==
    ASSUME Aligned, UNCHANGED <<wire, reply, granted>>,
           \/ pc' = "done" /\ (result' # "PAM_SUCCESS" \/ UNCHANGED result)
           \/ UNCHANGED <<pc, total, result>>
    PROVE  Aligned'
BY DEF Aligned, SuccessIsGranted, Taken, Written

LEMMA AlignedFinish ==
    ASSUME Aligned, NEW st, finish("PAM_AUTH_ERR", st)
    PROVE  Aligned'
BY AlignedQuiet DEF finish, daemon

LEMMA AlignedRead ==
    ASSUME Aligned, Read
    PROVE  Aligned'
<1> DEFINE D == Record
<1>1. /\ Parts \in Nat \ {0} /\ D \in Nat \ {0, 1} /\ D = 2 * Parts
      /\ total \in 0..(Parts - 1) /\ Taken \in 0..(D - 1)
      /\ wire \in Seq(Codes \cup Malformed) /\ wire # <<>>
  <2>1. Parts \in Nat \ {0} /\ total \in 0..(Parts - 1) /\ D = 2 * Parts
    BY Bounds DEF Aligned, Read, Record
  <2>2. wire \in Seq(Codes \cup Malformed) /\ wire # <<>>
    BY DEF Aligned, Read
  <2>3. Taken \in 0..(D - 1)
    BY <2>1 DEF Taken, Record, Read
  <2> QED BY <2>1, <2>2, <2>3
<1>2. /\ wire' \in Seq(Codes \cup Malformed) /\ Len(wire) \in Nat \ {0} /\ Len(wire') = Len(wire) - 1
      /\ \A i \in 1..Len(wire') : wire'[i] = wire[i + 1] /\ i + 1 \in 1..Len(wire)
      /\ Head(wire) = wire[1]
  BY <1>1 DEF Read
<1>3. total' = IF total + 1 = Parts THEN 0 ELSE total + 1
  <2>1. CASE total + 1 = Parts
    <3>1. Parts % Parts = 0
      BY <1>1, RemainderOfSum, Z3
    <3> QED
      BY <2>1, <3>1 DEF Read
  <2>2. CASE total + 1 # Parts
    <3> DEFINE t == total + 1
    <3>1. t \in 0..(Parts - 1) /\ t \in Nat
      BY <1>1, <2>2
    <3> HIDE DEF t
    <3>2. t = 0 * Parts + t
      BY <1>1, <3>1
    <3>3. t % Parts = t
      BY <1>1, <3>1, <3>2, Remainder
    <3> QED
      BY <2>2, <3>3 DEF Read, t
  <2> QED
    BY <2>1, <2>2
<1>4. UNCHANGED <<reply, granted>> /\ Written' = Written
  BY DEF Read, daemon, Written
<1>5. (Taken + Len(wire)) % D = Written
  BY DEF Aligned, Read
<1>6. \A i \in 1..Len(wire) : (Taken + i - 1) % D = D - 1 /\ wire[i] = "success" => granted
  BY DEF Aligned, Read
<1>7. ASSUME pc' \in {"header", "body"}, Taken' = Taken + 1, total' \in 0..(Parts - 1), UNCHANGED result
      PROVE  Aligned'
  <2>1. (Taken' + Len(wire')) % D = Written'
    <3>1. Taken' + Len(wire') = Taken + Len(wire)
      BY <1>1, <1>2, <1>7
    <3> QED
      BY <1>4, <1>5, <3>1
  <2>2. ASSUME NEW i \in 1..Len(wire'), (Taken' + i - 1) % D = D - 1, wire'[i] = "success"
        PROVE  granted'
    <3>1. Taken' + i - 1 = Taken + (i + 1) - 1
      BY <1>1, <1>2, <1>7
    <3> QED
      BY <1>2, <1>4, <1>6, <2>2, <3>1
  <2> QED
    BY <1>2, <1>4, <1>7, <2>1, <2>2 DEF Aligned, SuccessIsGranted, Record
<1>8. CASE total + 1 # Parts
  <2>1. total' # 0 /\ UNCHANGED <<pc, result>> /\ pc \in {"header", "body"}
    BY <1>1, <1>3, <1>8 DEF Read
  <2>2. total' = total + 1 /\ Taken' = Taken + 1 /\ total' \in 0..(Parts - 1)
    BY <1>1, <1>3, <1>8, <2>1 DEF Taken
  <2> QED
    BY <1>7, <2>1, <2>2
<1>9. CASE total + 1 = Parts /\ pc = "header"
  <2>1. CASE pc' = "body" /\ UNCHANGED result
    <3>1. Taken = total /\ Taken' = Parts /\ total' \in 0..(Parts - 1)
      BY <1>1, <1>3, <1>9, <2>1 DEF Taken
    <3> QED
      BY <1>1, <1>7, <1>9, <2>1, <3>1
  <2>2. CASE pc' = "done" /\ result' = "PAM_AUTH_ERR"
    BY <1>2, <1>4, <2>2 DEF Aligned, SuccessIsGranted, Record
  <2> QED
    BY <1>1, <1>3, <1>9, <2>1, <2>2 DEF Read
<1>10. CASE total + 1 = Parts /\ pc = "body"
  <2>1. Taken = D - 1 /\ total' = 0
    BY <1>1, <1>3, <1>10 DEF Taken
  <2>2. Judge(body') /\ body' = wire[1]
    BY <1>1, <1>2, <1>10, <2>1 DEF Read
  <2>3. CASE pc' = "header" /\ UNCHANGED result
    <3>1. Taken' = 0 /\ total' \in 0..(Parts - 1)
      BY <1>1, <2>1, <2>3 DEF Taken
    <3>2. \A n \in Nat : (Taken + n + 1) % D = n % D
      <4> TAKE n \in Nat
      <4>1. Taken + n + 1 = n + D
        BY <1>1, <2>1
      <4> QED
        BY <1>1, <4>1, RemainderOfSum
    <3>3. (Taken' + Len(wire')) % D = Written'
      <4> DEFINE n == Len(wire')
      <4>1. n \in Nat /\ Taken + n + 1 = Taken + Len(wire) /\ Taken' + n = n
        BY <1>1, <1>2, <3>1
      <4> QED
        BY <1>4, <1>5, <3>2, <4>1
    <3>4. ASSUME NEW i \in 1..Len(wire'), (Taken' + i - 1) % D = D - 1, wire'[i] = "success"
          PROVE  granted'
      <4> DEFINE n == i - 1
      <4>1. n \in Nat /\ Taken + n + 1 = Taken + (i + 1) - 1 /\ Taken' + i - 1 = n
        BY <1>1, <1>2, <3>1
      <4> QED
        BY <1>2, <1>4, <1>6, <3>2, <3>4, <4>1
    <3> QED
      BY <1>2, <1>4, <2>3, <3>1, <3>3, <3>4 DEF Aligned, SuccessIsGranted, Record
  <2>4. CASE pc' = "done" /\ body' = "success"
    <3> DEFINE t == Taken
    <3>1. (Taken + 1 - 1) % D = D - 1
      <4>1. t + 1 - 1 = t /\ t \in 0..(D - 1) /\ t \in Nat /\ t = D - 1 /\ D \in Nat \ {0}
        BY <1>1, <2>1
      <4> HIDE DEF t, D
      <4>2. t = 0 * D + t
        BY <4>1
      <4>3. t % D = t
        BY <4>1, <4>2, Remainder
      <4> QED
        BY <4>1, <4>3 DEF t
    <3>2. 1 \in 1..Len(wire) /\ wire[1] = "success"
      BY <1>2, <2>2, <2>4
    <3>3. granted'
      BY <1>4, <1>6, <3>1, <3>2
    <3> QED
      BY <1>2, <1>4, <2>4, <3>3 DEF Aligned, SuccessIsGranted, Record
  <2>5. CASE pc' = "done" /\ result' = "PAM_AUTH_ERR"
    BY <1>2, <1>4, <2>5 DEF Aligned, SuccessIsGranted, Record
  <2> QED
    BY <2>2, <2>3, <2>4, <2>5 DEF Judge
<1> QED
  BY <1>8, <1>9, <1>10 DEF Read

LEMMA AlignedDrip ==
    ASSUME Aligned, Drip
    PROVE  Aligned'
<1> DEFINE D == Record
           n == Taken + Len(wire)
<1>1. /\ Parts \in Nat \ {0} /\ D \in Nat \ {0, 1} /\ D = 2 * Parts /\ pc \in {"header", "body"}
      /\ total \in 0..(Parts - 1) /\ Taken \in 0..(D - 1)
      /\ wire \in Seq(Codes \cup Malformed) /\ Len(wire) \in Nat /\ n \in Nat /\ n % D = Written
  <2>1. pc \in {"header", "body"}
    BY DEF Drip
  <2>2. total \in 0..(Parts - 1) /\ wire \in Seq(Codes \cup Malformed) /\ n % D = Written
    BY <2>1 DEF Aligned
  <2>3. /\ Parts \in Nat \ {0} /\ D \in Nat \ {0, 1} /\ D = 2 * Parts
    BY Bounds DEF Record
  <2>4. total \in 0..(Parts - 1) /\ Taken \in 0..(D - 1)
    BY <2>2, <2>3 DEF Taken
  <2>5. Len(wire) \in Nat /\ n \in Nat
    BY <2>2, <2>3, <2>4
  <2> QED
    BY <2>1, <2>2, <2>3, <2>4, <2>5
<1>2. UNCHANGED <<pc, total, result>> /\ Taken' = Taken
  BY DEF Drip, client, Taken
<1>3. \A i \in 1..Len(wire) : (Taken + i - 1) % D = D - 1 /\ wire[i] = "success" => granted
  BY <1>1 DEF Aligned
<1>4. (n + 1) % D = IF n % D = D - 1 THEN 0 ELSE (n % D) + 1
  <2> HIDE DEF n, D
  <2> QED
    BY <1>1, RemainderOfSuccessor
<1>5. ASSUME NEW code \in Codes \cup Malformed, wire' = Append(wire, code), granted => granted',
             reply' = None \/ reply' \in [code : Codes \cup Malformed, parts : 1..(Record - 1)],
             (n + 1) % D = Written',
             n % D = D - 1 /\ code = "success" => granted'
      PROVE  Aligned'
  <2>1. /\ wire' \in Seq(Codes \cup Malformed) /\ Len(wire') = Len(wire) + 1
        /\ \A i \in 1..Len(wire) : wire'[i] = wire[i]
        /\ wire'[Len(wire) + 1] = code
    BY <1>1, <1>5
  <2>2. (Taken' + Len(wire')) % D = Written'
    <3>1. Taken' + Len(wire') = n + 1
      BY <1>1, <1>2, <2>1
    <3> QED
      BY <1>5, <3>1
  <2>3. ASSUME NEW i \in 1..Len(wire'), (Taken' + i - 1) % D = D - 1, wire'[i] = "success"
        PROVE  granted'
    <3>1. CASE i \in 1..Len(wire)
      BY <1>2, <1>3, <1>5, <2>1, <2>3, <3>1
    <3>2. CASE i = Len(wire) + 1
      <4>1. Taken' + i - 1 = n
        BY <1>1, <1>2, <3>2
      <4> QED
        BY <1>5, <2>1, <2>3, <3>2, <4>1
    <3> QED
      BY <1>1, <2>1, <3>1, <3>2
  <2>4. SuccessIsGranted'
    BY <1>2, <1>5 DEF Aligned, SuccessIsGranted
  <2> QED
    BY <1>1, <1>2, <1>5, <2>1, <2>2, <2>3, <2>4 DEF Aligned, Record
<1>6. CASE reply = None
  <2>1. PICK code \in Codes \cup Malformed : reply' = [code |-> code, parts |-> 1] /\ wire' = Append(wire, code)
    BY <1>6 DEF Drip
  <2>2. granted' = granted /\ reply' \in Replies /\ reply'.parts = 1
    BY <1>6, <2>1 DEF Drip, Replies
  <2>3. n % D = 0 /\ Written' = 1
    BY <1>1, <1>6, <2>2, Bounds DEF Written
  <2>4. reply' \in [code : Codes \cup Malformed, parts : 1..(Record - 1)]
    BY <1>1, <2>1
  <2>5. (n + 1) % D = 1 /\ n % D # D - 1
    BY <1>1, <1>4, <2>3
  <2> HIDE DEF n, D
  <2> QED
    BY <1>5, <2>1, <2>2, <2>3, <2>4, <2>5
<1>7. CASE reply # None
  <2>1. /\ wire' = Append(wire, reply.code)
        /\ reply' = IF reply.parts + 1 = 2 * Parts THEN None ELSE [reply EXCEPT !.parts = @ + 1]
        /\ granted' = (granted \/ (reply' = None /\ reply.code = "success"))
    BY <1>7 DEF Drip
  <2>2. reply.code \in Codes \cup Malformed /\ reply.parts \in 1..(D - 1) /\ n % D = reply.parts
        /\ reply = [code |-> reply.code, parts |-> reply.parts]
    BY <1>1, <1>7 DEF Aligned, Written
  <2>a. D \in Nat /\ reply.parts \in 1..(D - 1)
    BY <1>1, <2>2
  <2>3. CASE reply.parts + 1 = D
    <3>1. reply' = None /\ Written' = 0 /\ (n + 1) % D = 0
      BY <1>1, <1>4, <2>1, <2>2, <2>3 DEF Written
    <3> HIDE DEF n, D
    <3> QED
      BY <1>5, <2>1, <2>2, <3>1
  <2>4. CASE reply.parts + 1 # D
    <3>1. reply' = [code |-> reply.code, parts |-> reply.parts + 1]
      BY <1>1, <2>1, <2>2, <2>4
    <3>2. reply' \in [code : Codes \cup Malformed, parts : 1..(Record - 1)] /\ reply' \in Replies
      <4>1. reply.parts + 1 \in 1..(Record - 1) /\ reply.parts + 1 \in Nat
        BY <2>a, <2>4
      <4> QED
        BY <2>2, <3>1, <4>1 DEF Replies
    <3>3. Written' = reply.parts + 1 /\ (n + 1) % D = reply.parts + 1 /\ n % D # D - 1
      <4>1. Written' = reply.parts + 1
        BY <3>1, <3>2, Bounds DEF Written
      <4>2. n % D # D - 1
        BY <1>1, <2>2, <2>4
      <4> QED
        BY <1>4, <2>2, <4>1, <4>2
    <3>4. granted => granted'
      BY <2>1
    <3> HIDE DEF n, D
    <3> QED
      BY <1>5, <2>1, <2>2, <3>2, <3>3, <3>4
  <2> QED
    BY <2>3, <2>4
<1> QED
  BY <1>6, <1>7

LEMMA AlignedStep == Aligned /\ [Next]_vars => Aligned'
<1> SUFFICES ASSUME Aligned, [Next]_vars
             PROVE  Aligned'
  OBVIOUS
<1> USE DEF fail_with_status, daemon_unavailable
<1>1. CASE Begin
  BY <1>1, AlignedFinish DEF Begin, daemon, Aligned, SuccessIsGranted
<1>2. CASE Connect
  BY <1>2, AlignedFinish DEF Connect, daemon, Aligned, SuccessIsGranted
<1>3. CASE Wait
  BY <1>3, AlignedFinish, AlignedQuiet DEF Wait, daemon
<1>4. CASE PollTimeout
  BY <1>4, AlignedFinish DEF PollTimeout
<1>5. CASE Interrupted
  BY <1>5, AlignedQuiet DEF Interrupted, daemon
<1>6. CASE Writable
  <2>1. CASE daemon_unavailable("other")
    BY <2>1, AlignedFinish
  <2>2. CASE pc' \in {"request", "send"} /\ UNCHANGED <<result, wire, daemon>>
    BY <1>6, <2>2 DEF Writable, daemon, Aligned, SuccessIsGranted
  <2>3. CASE pc = "send" /\ pc' = "header" /\ total' = 0 /\ UNCHANGED <<result, wire, daemon>>
    <3>1. wire' = <<>> /\ reply' = None /\ Taken' = 0 /\ Written' = 0 /\ Record \in Nat \ {0} /\ Parts \in Nat \ {0}
      BY <2>3, Bounds DEF Aligned, daemon, Taken, Written, Record
    <3>2. Taken' + Len(wire') = 0 /\ 0 = 0 * Record + 0 /\ 0 \in 0..(Record - 1)
      BY <3>1
    <3>3. (Taken' + Len(wire')) % Record = 0
      BY <3>1, <3>2, Remainder
    <3> QED
      BY <2>3, <3>1, <3>3 DEF Aligned, SuccessIsGranted, Record, daemon
  <2> QED
    BY <1>6, <2>1, <2>2, <2>3 DEF Writable
<1>7. CASE Request
  BY <1>7, AlignedFinish DEF Request, daemon, Aligned, SuccessIsGranted
<1>8. CASE Read
  BY <1>8, AlignedRead
<1>9. CASE ReadEnd
  BY <1>9, AlignedFinish DEF ReadEnd
<1>10. CASE Drip
  BY <1>10, AlignedDrip
<1>11. CASE Close \/ Tick \/ UNCHANGED vars
  BY <1>11, AlignedQuiet DEF Close, Tick, vars, client, daemon
<1> QED
  BY <1>1, <1>2, <1>3, <1>4, <1>5, <1>6, <1>7, <1>8, <1>9, <1>10, <1>11 DEF Next

(* PAM gets success only for a whole success record of the daemon: parts of *)
(* two records never pass for one, however many parts a record arrives in   *)
(* and wherever the daemon stops (read_all_until, pam_sm_authenticate).     *)
THEOREM ClientSuccessIsGranted == Spec => []SuccessIsGranted
<1>1. Aligned => SuccessIsGranted
  BY DEF Aligned
<1> QED
  BY <1>1, AlignedInit, AlignedStep, PTL DEF Spec

-----------------------------------------------------------------------------
(* The set-up script. *)

Files == LegacyFiles
Mods == {"kfaceauth", "kfaceauth_sddm"}

(* The lists of the script: each element once, in one order. *)
ModuleLists == {<<>>, <<"kfaceauth">>, <<"kfaceauth_sddm">>, <<"kfaceauth", "kfaceauth_sddm">>}
FileLists == {<<>>, <<"sddm">>, <<"kde">>, <<"sddm", "kde">>}

On(x, q) == \E i \in DOMAIN q : q[i] = x

Forward == {"check_service", "write_temp", "link", "check_link", "module", "enable", "migrate", "strip"}
Back == {"restore_legacy", "restore_service", "restore_socket", "restore_daemon", "restore_enabled",
         "restore_modules"}
Steps == Forward \cup Back

Systems == [dest : {"absent", "template", "custom"},
            modules : [Mods -> Modules \cup {"absent", "new"}],
            enabled : BOOLEAN, active : BOOLEAN, service : BOOLEAN,
            legacy : [Files -> {"clean", "managed", "unmanaged"}]]

Scripts == [at : Steps, target : Targets, installed : ModuleLists, created : BOOLEAN,
            touched : BOOLEAN, files : FileLists, next : 1..3, failed : BOOLEAN,
            enabled : BOOLEAN, active : BOOLEAN, service : BOOLEAN]

Types ==
    /\ sys \in Systems /\ before \in Systems
    /\ script \in Scripts \/ script = Idle
    /\ backup \in [Files -> {"none", "clean", "managed", "unmanaged"}]
    /\ sys.service => sys.active
    /\ before.service => before.active

(* Which lists and counters a step of the way forward has. *)
ForwardInv ==
    /\ ~script.failed
    /\ script.at \notin {"migrate", "strip"} => script.files = <<>> /\ ~script.touched
    /\ script.at \in {"check_service", "write_temp", "link", "check_link"} =>
          script.next = 1 /\ script.installed = <<>> /\ ~script.created
    /\ script.at = "link" => temp = "whole"
    /\ script.at = "module" =>
          /\ script.next = 1 => script.installed = <<>>
          /\ script.next = 2 => script.installed \in {<<>>, <<"kfaceauth">>}
          /\ script.next = 3 => script.target = "sddm"
    /\ script.at \in {"module", "enable", "migrate", "strip"} => sys.dest = "template"
    /\ script.at \in {"migrate", "strip"} =>
          /\ sys.enabled /\ sys.active
          /\ script.next # 1 => sys.legacy["sddm"] = "clean"
    /\ script.at = "migrate" =>
          /\ script.next = 1 => script.files = <<>>
          /\ script.next = 2 => script.files \in {<<>>, <<"sddm">>}
          /\ script.next = 3 => sys.legacy["kde"] = "clean"
    /\ script.at = "strip" =>
          \/ script.next = 1 /\ script.files = <<"sddm">>
          \/ script.next = 2 /\ script.files \in {<<"kde">>, <<"sddm", "kde">>}

(* The dedicated service. *)
DestInv ==
    /\ script.at = "check_link" => sys.dest = "template" /\ before.dest = "absent"
    /\ script.created /\ script.at \in Forward \cup {"restore_legacy", "restore_service"} =>
          sys.dest = "template" /\ before.dest = "absent"
    /\ ~script.created /\ script.at # "check_link" => sys.dest = before.dest
    /\ script.at \notin Forward \cup {"restore_legacy", "restore_service"} /\ ~script.failed =>
          sys.dest = before.dest

(* The standard services. *)
LegacyInv ==
    \A f \in Files :
        IF On(f, script.files)
        THEN before.legacy[f] = "managed" /\ backup[f] = "managed" /\ sys.legacy[f] \in {"managed", "clean"}
        ELSE script.failed \/ sys.legacy[f] = before.legacy[f]

(* The modules. *)
ModuleInv ==
    QueriesExact => \A m \in Mods :
        IF On(m, script.installed) THEN before.modules[m] = "absent"
        ELSE script.failed \/ sys.modules[m] = before.modules[m]

(* The socket. *)
SocketInv ==
    /\ ~script.touched => sys.enabled = before.enabled /\ sys.active = before.active
    /\ QueriesExact =>
          /\ script.enabled = before.enabled /\ script.active = before.active
          /\ script.service = before.service
          /\ script.at \in {"restore_daemon", "restore_enabled"} /\ ~script.failed =>
                sys.active = before.active
          /\ script.at = "restore_modules" /\ ~script.failed =>
                sys.enabled = before.enabled /\ sys.active = before.active

ScriptInv ==
    /\ script.at \in Forward => ForwardInv
    /\ script.at \in {"restore_socket", "restore_daemon", "restore_enabled"} => script.touched
    /\ script.at \notin Forward \cup {"restore_legacy"} => script.files = <<>>
    /\ DestInv /\ LegacyInv /\ ModuleInv /\ SocketInv

Restored ==
    /\ sys.dest = before.dest /\ sys.legacy = before.legacy
    /\ QueriesExact => /\ sys.modules = before.modules
                       /\ sys.enabled = before.enabled /\ sys.active = before.active

Inv ==
    /\ Types
    /\ ServicesWhole
    /\ script # Idle => ScriptInv
    /\ report \in {"prepared", "restored"} => script = Idle
    /\ report = "restored" => Restored
    /\ PreparedAsReported

-----------------------------------------------------------------------------
(* The lists.                                                              *)
LEMMA OnList ==
    /\ \A x : ~On(x, <<>>)
    /\ \A x : On(x, <<"sddm">>) <=> x = "sddm"
    /\ \A x : On(x, <<"kde">>) <=> x = "kde"
    /\ \A x : On(x, <<"sddm", "kde">>) <=> x \in {"sddm", "kde"}
    /\ \A x : On(x, <<"kfaceauth">>) <=> x = "kfaceauth"
    /\ \A x : On(x, <<"kfaceauth_sddm">>) <=> x = "kfaceauth_sddm"
    /\ \A x : On(x, <<"kfaceauth", "kfaceauth_sddm">>) <=> x \in {"kfaceauth", "kfaceauth_sddm"}
<1>1. \A x : ~On(x, <<>>)
  BY DEF On
<1>2. \A a, x : On(x, <<a>>) <=> x = a
  BY DEF On
<1>3. \A a, b, x : On(x, <<a, b>>) <=> x \in {a, b}
  BY DEF On
<1> QED BY <1>1, <1>2, <1>3, Zenon

(* The last element and the rest. *)
Latest(q) == q[Len(q)]
Earlier(q) == SubSeq(q, 1, Len(q) - 1)

LEMMA OneOrTwo ==
    ASSUME NEW a, NEW b
    PROVE  /\ <<a>> # <<>> /\ Latest(<<a>>) = a /\ Earlier(<<a>>) = <<>>
           /\ <<a, b>> # <<>> /\ Latest(<<a, b>>) = b /\ Earlier(<<a, b>>) = <<a>>
           /\ Append(<<>>, a) = <<a>> /\ Append(<<a>>, b) = <<a, b>>
<1>1. <<a>> # <<>> /\ Latest(<<a>>) = a /\ <<a, b>> # <<>> /\ Latest(<<a, b>>) = b
  BY DEF Latest
<1>2. Earlier(<<a>>) = <<>>
  BY DEF Earlier
<1>3. <<>> \in Seq({a, b}) /\ <<a>> \in Seq({a, b}) /\ <<a, b>> \in Seq({a, b})
  OBVIOUS
<1>4. Earlier(<<a, b>>) = <<a>>
  <2> DEFINE s == Earlier(<<a, b>>)
  <2>1. s \in Seq({a, b}) /\ Len(s) = 1 /\ s[1] = a
    BY DEF Earlier
  <2>2. Len(<<a>>) = 1 /\ <<a>>[1] = a /\ \A i \in 1..1 : i = 1
    OBVIOUS
  <2> HIDE DEF s
  <2>3. Len(s) = Len(<<a>>) /\ \A i \in 1..Len(s) : s[i] = <<a>>[i]
    BY <2>1, <2>2, Zenon
  <2>4. s = <<a>>
    BY <1>3, <2>1, <2>3, SeqEqual, Zenon
  <2> QED BY <2>4 DEF s
<1>5. Append(<<>>, a) = <<a>>
  <2> DEFINE s == Append(<<>>, a)
  <2>1. s \in Seq({a, b}) /\ Len(s) = 1 /\ s[1] = a
    OBVIOUS
  <2>2. Len(<<a>>) = 1 /\ <<a>>[1] = a /\ \A i \in 1..1 : i = 1
    OBVIOUS
  <2> HIDE DEF s
  <2>3. Len(s) = Len(<<a>>) /\ \A i \in 1..Len(s) : s[i] = <<a>>[i]
    BY <2>1, <2>2, Zenon
  <2>4. s = <<a>>
    BY <1>3, <2>1, <2>3, SeqEqual, Zenon
  <2> QED BY <2>4 DEF s
<1>6. Append(<<a>>, b) = <<a, b>>
  <2> DEFINE s == Append(<<a>>, b)
  <2>1. s \in Seq({a, b}) /\ Len(s) = 2 /\ s[1] = a /\ s[2] = b
    OBVIOUS
  <2>2. Len(<<a, b>>) = 2 /\ <<a, b>>[1] = a /\ <<a, b>>[2] = b /\ \A i \in 1..2 : i = 1 \/ i = 2
    OBVIOUS
  <2> HIDE DEF s
  <2>3. Len(s) = Len(<<a, b>>) /\ \A i \in 1..Len(s) : s[i] = <<a, b>>[i]
    BY <2>1, <2>2, Zenon
  <2>4. s = <<a, b>>
    BY <1>3, <2>1, <2>3, SeqEqual, Zenon
  <2> QED BY <2>4 DEF s
<1> QED BY <1>1, <1>2, <1>4, <1>5, <1>6, Zenon

LEMMA Popped ==
    /\ \A q \in FileLists \ {<<>>} :
          /\ Latest(q) \in Files /\ Earlier(q) \in FileLists /\ ~On(Latest(q), Earlier(q))
          /\ \A f : On(f, q) <=> (f = Latest(q) \/ On(f, Earlier(q)))
    /\ \A q \in ModuleLists \ {<<>>} :
          /\ Latest(q) \in Mods /\ Earlier(q) \in ModuleLists /\ ~On(Latest(q), Earlier(q))
          /\ \A m : On(m, q) <=> (m = Latest(q) \/ On(m, Earlier(q)))
<1>1. ASSUME NEW q \in FileLists \ {<<>>}
      PROVE  /\ Latest(q) \in Files /\ Earlier(q) \in FileLists /\ ~On(Latest(q), Earlier(q))
             /\ \A f : On(f, q) <=> (f = Latest(q) \/ On(f, Earlier(q)))
  <2>1. CASE q = <<"sddm">>
    <3>1. Latest(q) = "sddm" /\ Earlier(q) = <<>>
      BY <2>1, OneOrTwo, Zenon
    <3> QED BY <2>1, <3>1, OnList, Zenon DEF Files, LegacyFiles, FileLists
  <2>2. CASE q = <<"kde">>
    <3>1. Latest(q) = "kde" /\ Earlier(q) = <<>>
      BY <2>2, OneOrTwo, Zenon
    <3> QED BY <2>2, <3>1, OnList, Zenon DEF Files, LegacyFiles, FileLists
  <2>3. CASE q = <<"sddm", "kde">>
    <3>1. Latest(q) = "kde" /\ Earlier(q) = <<"sddm">>
      BY <2>3, OneOrTwo, Zenon
    <3> QED BY <2>3, <3>1, OnList, Zenon DEF Files, LegacyFiles, FileLists
  <2> QED BY <1>1, <2>1, <2>2, <2>3, Zenon DEF FileLists
<1>2. ASSUME NEW q \in ModuleLists \ {<<>>}
      PROVE  /\ Latest(q) \in Mods /\ Earlier(q) \in ModuleLists /\ ~On(Latest(q), Earlier(q))
             /\ \A m : On(m, q) <=> (m = Latest(q) \/ On(m, Earlier(q)))
  <2>1. CASE q = <<"kfaceauth">>
    <3>1. Latest(q) = "kfaceauth" /\ Earlier(q) = <<>>
      BY <2>1, OneOrTwo, Zenon
    <3> QED BY <2>1, <3>1, OnList, Zenon DEF Mods, ModuleLists
  <2>2. CASE q = <<"kfaceauth_sddm">>
    <3>1. Latest(q) = "kfaceauth_sddm" /\ Earlier(q) = <<>>
      BY <2>2, OneOrTwo, Zenon
    <3> QED BY <2>2, <3>1, OnList, Zenon DEF Mods, ModuleLists
  <2>3. CASE q = <<"kfaceauth", "kfaceauth_sddm">>
    <3>1. Latest(q) = "kfaceauth_sddm" /\ Earlier(q) = <<"kfaceauth">>
      BY <2>3, OneOrTwo, Zenon
    <3> QED BY <2>3, <3>1, OnList, Zenon DEF Mods, ModuleLists
  <2> QED BY <1>2, <2>1, <2>2, <2>3, Zenon DEF ModuleLists
<1> QED BY <1>1, <1>2, Zenon

-----------------------------------------------------------------------------
(* Going on with all variables of the script but the step. *)
Carries ==
    /\ script'.target = script.target /\ script'.installed = script.installed
    /\ script'.created = script.created /\ script'.touched = script.touched
    /\ script'.files = script.files /\ script'.next = script.next /\ script'.failed = script.failed
    /\ script'.enabled = script.enabled /\ script'.active = script.active
    /\ script'.service = script.service

LEMMA NotIdle ==
    /\ \A s \in Scripts : s # Idle /\ s.at \in Steps /\ s.at # "idle"
    /\ Idle.at = "idle"
<1>1. Idle.at = "idle"
  BY DEF Idle
<1>2. "idle" \notin Steps
  BY Zenon DEF Steps, Forward, Back
<1>3. \A s \in Scripts : s.at \in Steps
  BY DEF Scripts
<1> QED BY <1>1, <1>2, <1>3, Zenon

LEMMA GoFacts ==
    ASSUME script \in Scripts, NEW x \in Steps, Go(x)
    PROVE  script' \in Scripts /\ script'.at = x /\ Carries
<1>1. script' = [script EXCEPT !.at = x]
  BY DEF Go
<1>2. script' \in Scripts
  BY <1>1 DEF Scripts
<1>3. script'.at = x /\ Carries
  BY <1>1 DEF Scripts, Carries
<1> QED BY <1>2, <1>3, Zenon

LEMMA SystemFields ==
    ASSUME NEW s \in Systems
    PROVE  /\ s.dest \in {"absent", "template", "custom"}
           /\ s.modules \in [Mods -> Modules \cup {"absent", "new"}]
           /\ s.enabled \in BOOLEAN /\ s.active \in BOOLEAN /\ s.service \in BOOLEAN
           /\ s.legacy \in [Files -> {"clean", "managed", "unmanaged"}]
  BY DEF Systems

(* A running script continues, or ends without the two last words. *)
LEMMA Continues ==
    ASSUME Inv, script \in Scripts, report' = report, Types', ServicesWhole', script' \in Scripts, ScriptInv'
    PROVE  Inv'
<1>1. report' \notin {"prepared", "restored"}
  BY NotIdle, Zenon DEF Inv
<1> QED BY <1>1, Zenon DEF Inv, PreparedAsReported

LEMMA Stops ==
    ASSUME Types', ServicesWhole', NEW w \in {"refused", "not_prepared", "incomplete", "killed"}, Exit(w)
    PROVE  Inv'
  BY Zenon DEF Exit, Inv, PreparedAsReported

-----------------------------------------------------------------------------
(* The parts of the invariant under steps that do not concern them. *)
Early == Forward \cup {"restore_legacy", "restore_service"}

LEMMA DestKept ==
    ASSUME DestInv, sys'.dest = sys.dest, before'.dest = before.dest, script'.created = script.created,
           script.failed => script'.failed, script.at # "check_link", script'.at # "check_link",
           script'.at \in Early <=> script.at \in Early
    PROVE  DestInv'
  BY Zenon DEF DestInv, Early

LEMMA LegacyKept ==
    ASSUME LegacyInv, sys'.legacy = sys.legacy, before'.legacy = before.legacy, backup' = backup,
           script'.files = script.files, script.failed => script'.failed
    PROVE  LegacyInv'
  BY Zenon DEF LegacyInv

LEMMA ModuleKept ==
    ASSUME ModuleInv, sys'.modules = sys.modules, before'.modules = before.modules,
           script'.installed = script.installed, script.failed => script'.failed
    PROVE  ModuleInv'
  BY Zenon DEF ModuleInv

LEMMA SocketKept ==
    ASSUME SocketInv, sys'.enabled = sys.enabled, sys'.active = sys.active, before'.enabled = before.enabled,
           before'.active = before.active, before'.service = before.service,
           script'.touched = script.touched, script'.enabled = script.enabled,
           script'.active = script.active, script'.service = script.service,
           \/ script'.at \notin {"restore_daemon", "restore_enabled", "restore_modules"}
           \/ script'.at = script.at /\ (script.failed => script'.failed)
    PROVE  SocketInv'
  BY Zenon DEF SocketInv

-----------------------------------------------------------------------------
(* The steps, one after the other.                                         *)
LEMMA Running ==
    ASSUME Inv, script.at # "idle"
    PROVE  /\ script \in Scripts /\ Types /\ ServicesWhole /\ ScriptInv
           /\ script.at \in Forward => ForwardInv
           /\ DestInv /\ LegacyInv /\ ModuleInv /\ SocketInv
<1>1. script \in Scripts
  BY NotIdle, Zenon DEF Inv, Types
<1> QED BY <1>1, NotIdle, Zenon DEF Inv, ScriptInv

LEMMA StepNames ==
    /\ Forward \subseteq Steps /\ Back \subseteq Steps /\ Forward \subseteq Early
    /\ {"check_service", "write_temp", "link", "check_link", "module", "enable", "migrate", "strip"} = Forward
    /\ {"restore_legacy", "restore_service", "restore_socket", "restore_daemon", "restore_enabled",
        "restore_modules"} = Back
    /\ Early = Forward \cup {"restore_legacy", "restore_service"}
    /\ \A x \in Forward : x \notin {"idle", "restore_legacy", "restore_service", "restore_socket",
                                    "restore_daemon", "restore_enabled", "restore_modules"}
  BY Zenon DEF Steps, Forward, Back, Early

LEMMA PrepareKept ==
    ASSUME Inv, NEW target \in Targets, prepare_target(target)
    PROVE  Inv'
<1>1. before' = sys /\ sys' = sys /\ backup' = backup /\ Types
  BY Zenon DEF prepare_target, Inv
<1>2. ServicesWhole'
  BY <1>1, Zenon DEF ServicesWhole
<1>3. CASE Exit("refused")
  <2>1. Types'
    BY <1>1, <1>3, Zenon DEF Types, Exit
  <2> QED BY <1>2, <1>3, <2>1, Stops, Zenon
<1>4. ASSUME NEW e \in Reads(sys.enabled), NEW a \in Reads(sys.active), NEW v \in Reads(sys.service),
             script' = [at |-> "check_service", target |-> target, installed |-> <<>>,
                        created |-> FALSE, touched |-> FALSE, files |-> <<>>, next |-> 1,
                        failed |-> FALSE, enabled |-> e, active |-> a, service |-> v],
             report' = "none"
      PROVE  Inv'
  <2>1. e \in BOOLEAN /\ a \in BOOLEAN /\ v \in BOOLEAN
    BY <1>1, SystemFields, Zenon DEF Reads, Types
  <2>2. "check_service" \in Steps /\ <<>> \in ModuleLists /\ <<>> \in FileLists /\ 1 \in 1..3
        /\ "check_service" \in Forward
    <3>1. 1 \in 1..3
      OBVIOUS
    <3> QED BY <3>1, StepNames, Zenon DEF ModuleLists, FileLists
  <2>3. script' \in Scripts
    BY <1>4, <2>1, <2>2 DEF Scripts
  <2>4. /\ script'.at = "check_service" /\ script'.installed = <<>> /\ script'.created = FALSE
        /\ script'.touched = FALSE /\ script'.files = <<>> /\ script'.next = 1 /\ script'.failed = FALSE
        /\ script'.enabled = e /\ script'.active = a /\ script'.service = v
    BY <1>4
  <2>5. Types'
    BY <1>1, <2>3, Zenon DEF Types
  <2>6. ~QueriesMayFail => e = sys.enabled /\ a = sys.active /\ v = sys.service
    BY <1>4, Zenon DEF Reads
  <2>7. ForwardInv'
    BY <2>4, Zenon DEF ForwardInv
  <2>8. DestInv' /\ SocketInv'
    BY <1>1, <2>4, <2>6, Zenon DEF DestInv, SocketInv, QueriesExact
  <2>9. LegacyInv' /\ ModuleInv'
    BY <1>1, <2>4, OnList, Zenon DEF LegacyInv, ModuleInv
  <2>10. ScriptInv'
    BY <2>2, <2>4, <2>7, <2>8, <2>9, Zenon DEF ScriptInv
  <2> QED BY <1>2, <1>4, <2>3, <2>5, <2>10, NotIdle, Zenon DEF Inv, PreparedAsReported
<1> QED BY <1>3, <1>4, Zenon DEF prepare_target

(* Steps of the script that leave the system alone, and go from a step of  *)
(* the way forward to the next one, or to the rollback.                    *)
LEMMA QuietKept ==
    ASSUME Inv, script.at \in Forward \ {"check_link"}, NEW x \in Early \ {"check_link"}, Go(x),
           UNCHANGED <<sys, backup, before, report>>, x \in Forward => ForwardInv',
           x = "restore_service" => script.files = <<>>
    PROVE  Inv'
<1>1. script.at # "idle" /\ x \in Steps
  BY StepNames, Zenon DEF Steps, Back
<1>2. /\ script \in Scripts /\ Types /\ ServicesWhole /\ ScriptInv /\ DestInv /\ LegacyInv /\ ModuleInv /\ SocketInv
  BY <1>1, Running, Zenon
<1>3. script' \in Scripts /\ script'.at = x /\ Carries
  BY <1>1, <1>2, GoFacts, Zenon
<1>4. Types' /\ ServicesWhole'
  BY <1>2, <1>3, Zenon DEF Types, ServicesWhole
<1>5. x \notin {"restore_socket", "restore_daemon", "restore_enabled", "restore_modules"}
  BY StepNames, Zenon
<1>6. DestInv' /\ LegacyInv' /\ ModuleInv'
  BY <1>2, <1>3, StepNames, DestKept, LegacyKept, ModuleKept, Zenon DEF Carries
<1>7. SocketInv'
  BY <1>2, <1>3, <1>5, SocketKept, Zenon DEF Carries
<1>8. ScriptInv'
  BY <1>3, <1>5, <1>6, <1>7, Zenon DEF ScriptInv, Carries, Early
<1> QED BY <1>2, <1>3, <1>4, <1>8, Continues, Zenon

LEMMA CheckServiceKept ==
    ASSUME Inv, CheckService
    PROVE  Inv'
<1>1. script.at = "check_service" /\ script.at \in Forward \ {"check_link"} /\ script.at # "idle"
      /\ UNCHANGED <<sys, backup, before>>
  BY StepNames, Zenon DEF CheckService, At
<1>2. Types /\ ServicesWhole /\ ForwardInv /\ script \in Scripts
  BY <1>1, Running, Zenon
<1>3. CASE Exit("not_prepared")
  <2>1. Types' /\ ServicesWhole'
    BY <1>1, <1>2, <1>3, Zenon DEF Types, ServicesWhole, Exit
  <2> QED BY <1>3, <2>1, Stops, Zenon
<1>4. CASE sys.dest = "template" /\ Go("module") /\ UNCHANGED report
  <2>1. "module" \in Steps /\ "module" \in Early \ {"check_link"}
    BY StepNames, Zenon
  <2>2. script'.at = "module" /\ Carries
    BY <1>2, <1>4, <2>1, GoFacts, Zenon
  <2>3. 1 # 2 /\ 1 # 3
    OBVIOUS
  <2>4. ForwardInv'
    BY <1>1, <1>2, <1>4, <2>2, <2>3, Zenon DEF ForwardInv, Carries
  <2> QED BY <1>1, <1>4, <2>1, <2>4, QuietKept, Zenon
<1>5. CASE sys.dest = "absent" /\ Go("write_temp") /\ UNCHANGED report
  <2>1. "write_temp" \in Steps /\ "write_temp" \in Early \ {"check_link"}
    BY StepNames, Zenon
  <2>2. script'.at = "write_temp" /\ Carries
    BY <1>2, <1>5, <2>1, GoFacts, Zenon
  <2>3. ForwardInv'
    BY <1>1, <1>2, <1>5, <2>2, Zenon DEF ForwardInv, Carries
  <2> QED BY <1>1, <1>5, <2>1, <2>3, QuietKept, Zenon
<1> QED BY <1>3, <1>4, <1>5, Zenon DEF CheckService

LEMMA WriteTempKept ==
    ASSUME Inv, WriteTemp
    PROVE  Inv'
<1>1. script.at = "write_temp" /\ script.at \in Forward \ {"check_link"} /\ script.at # "idle"
      /\ UNCHANGED <<sys, backup, before>>
  BY StepNames, Zenon DEF WriteTemp, At
<1>2. Types /\ ServicesWhole /\ ForwardInv /\ script \in Scripts /\ ScriptInv
  BY <1>1, Running, Zenon
<1>3. CASE Exit("not_prepared")
  <2>1. Types' /\ ServicesWhole'
    BY <1>1, <1>2, <1>3, Zenon DEF Types, ServicesWhole, Exit
  <2> QED BY <1>3, <2>1, Stops, Zenon
<1>4. CASE UNCHANGED <<script, report>>
  <2>1. Types' /\ ServicesWhole' /\ DestInv' /\ LegacyInv' /\ ModuleInv' /\ SocketInv'
    BY <1>1, <1>2, <1>4, Zenon DEF Types, ServicesWhole, ScriptInv, DestInv, LegacyInv, ModuleInv, SocketInv
  <2>2. ForwardInv'
    BY <1>1, <1>2, <1>4, Zenon DEF ForwardInv
  <2>3. ScriptInv'
    BY <1>2, <1>4, <2>1, <2>2, Zenon DEF ScriptInv
  <2> QED BY <1>2, <1>4, <2>1, <2>3, Continues, Zenon
<1>5. CASE temp' = "whole" /\ Go("link") /\ UNCHANGED report
  <2>1. "link" \in Steps /\ "link" \in Early \ {"check_link"}
    BY StepNames, Zenon
  <2>2. script'.at = "link" /\ Carries
    BY <1>2, <1>5, <2>1, GoFacts, Zenon
  <2>3. ForwardInv'
    BY <1>1, <1>2, <1>5, <2>2, Zenon DEF ForwardInv, Carries
  <2> QED BY <1>1, <1>5, <2>1, <2>3, QuietKept, Zenon
<1> QED BY <1>3, <1>4, <1>5, Zenon DEF WriteTemp

(* The same system but for one part. *)
Alike(s, t, part) ==
    /\ part # "dest" => t.dest = s.dest
    /\ part # "modules" => t.modules = s.modules
    /\ part # "socket" => t.enabled = s.enabled /\ t.active = s.active /\ t.service = s.service
    /\ part # "legacy" => t.legacy = s.legacy

LEMMA NewDest ==
    ASSUME NEW s \in Systems, NEW d \in {"absent", "template", "custom"}
    PROVE  [s EXCEPT !.dest = d] \in Systems /\ [s EXCEPT !.dest = d].dest = d
           /\ Alike(s, [s EXCEPT !.dest = d], "dest")
<1>1. [s EXCEPT !.dest = d] \in Systems
  BY DEF Systems
<1>2. [s EXCEPT !.dest = d].dest = d /\ Alike(s, [s EXCEPT !.dest = d], "dest")
  BY DEF Systems, Alike
<1> QED BY <1>1, <1>2, Zenon

LEMMA NewModule ==
    ASSUME NEW s \in Systems, NEW m \in Mods, NEW v \in {"absent", "new"}
    PROVE  LET t == [s EXCEPT !.modules[m] = v]
           IN  /\ t \in Systems /\ Alike(s, t, "modules") /\ t.modules[m] = v
               /\ \A x \in Mods : x # m => t.modules[x] = s.modules[x]
<1> DEFINE q == [s.modules EXCEPT ![m] = v]
           t == [s EXCEPT !.modules = q]
<1>1. s.modules \in [Mods -> Modules \cup {"absent", "new"}]
  BY SystemFields, Zenon
<1>2. q \in [Mods -> Modules \cup {"absent", "new"}] /\ q[m] = v /\ \A x \in Mods : x # m => q[x] = s.modules[x]
  BY <1>1
<1>3. [s EXCEPT !.modules[m] = v] = t
  OBVIOUS
<1> HIDE DEF q
<1>4. t \in Systems
  BY <1>2 DEF Systems
<1>5. t.modules = q /\ Alike(s, t, "modules")
  BY DEF Systems, Alike
<1> HIDE DEF t
<1> QED BY <1>2, <1>3, <1>4, <1>5, Zenon

LEMMA NewLegacy ==
    ASSUME NEW s \in Systems, NEW f \in Files, NEW v \in {"clean", "managed", "unmanaged"}
    PROVE  LET t == [s EXCEPT !.legacy[f] = v]
           IN  /\ t \in Systems /\ Alike(s, t, "legacy") /\ t.legacy[f] = v
               /\ \A x \in Files : x # f => t.legacy[x] = s.legacy[x]
<1> DEFINE q == [s.legacy EXCEPT ![f] = v]
           t == [s EXCEPT !.legacy = q]
<1>1. s.legacy \in [Files -> {"clean", "managed", "unmanaged"}]
  BY SystemFields, Zenon
<1>2. q \in [Files -> {"clean", "managed", "unmanaged"}] /\ q[f] = v /\ \A x \in Files : x # f => q[x] = s.legacy[x]
  BY <1>1
<1>3. [s EXCEPT !.legacy[f] = v] = t
  OBVIOUS
<1> HIDE DEF q
<1>4. t \in Systems
  BY <1>2 DEF Systems
<1>5. t.legacy = q /\ Alike(s, t, "legacy")
  BY DEF Systems, Alike
<1> HIDE DEF t
<1> QED BY <1>2, <1>3, <1>4, <1>5, Zenon

Sock(s, e, a, v) == [s EXCEPT !.enabled = e, !.active = a, !.service = v]

LEMMA NewSocket ==
    ASSUME NEW s \in Systems, NEW e \in BOOLEAN, NEW a \in BOOLEAN, NEW v \in BOOLEAN
    PROVE  /\ Sock(s, e, a, v) \in Systems /\ Alike(s, Sock(s, e, a, v), "socket")
           /\ Sock(s, e, a, v).enabled = e /\ Sock(s, e, a, v).active = a /\ Sock(s, e, a, v).service = v
<1>1. Sock(s, e, a, v) \in Systems
  BY DEF Systems, Sock
<1>2. Alike(s, Sock(s, e, a, v), "socket")
  BY DEF Systems, Sock, Alike
<1>3. Sock(s, e, a, v).enabled = e /\ Sock(s, e, a, v).active = a /\ Sock(s, e, a, v).service = v
  BY DEF Systems, Sock
<1> QED BY <1>1, <1>2, <1>3, Zenon

LEMMA LinkKept ==
    ASSUME Inv, Link
    PROVE  Inv'
<1>1. script.at = "link" /\ script.at \in Forward \ {"check_link"} /\ script.at # "idle"
      /\ UNCHANGED <<backup, before>>
  BY StepNames, Zenon DEF Link, At
<1>2. Types /\ ServicesWhole /\ ScriptInv /\ ForwardInv /\ DestInv /\ LegacyInv /\ ModuleInv /\ SocketInv
      /\ script \in Scripts
  BY <1>1, Running, Zenon
<1>3. ASSUME sys.dest = "absent", sys' = [sys EXCEPT !.dest = Published], Go("check_link"), UNCHANGED report
      PROVE  Inv'
  <2>1. Published = "template"
    BY <1>1, <1>2, Zenon DEF Published, ForwardInv
  <2>2. sys' \in Systems /\ sys'.dest = "template" /\ Alike(sys, sys', "dest")
    <3>1. sys \in Systems /\ "template" \in {"absent", "template", "custom"}
      BY <1>2, Zenon DEF Types
    <3>2. sys' = [sys EXCEPT !.dest = "template"]
      BY <1>3, <2>1, Zenon
    <3> QED BY <3>1, <3>2, NewDest, Zenon
  <2>3. "check_link" \in Steps /\ "check_link" \in Forward /\ "dest" # "legacy" /\ "dest" # "modules" /\ "dest" # "socket"
    BY StepNames, Zenon
  <2>4. script' \in Scripts /\ script'.at = "check_link" /\ Carries
    BY <1>2, <1>3, <2>3, GoFacts, Zenon
  <2>5. Types' /\ ServicesWhole'
    BY <1>1, <1>2, <2>2, <2>3, <2>4, Zenon DEF Types, ServicesWhole, Alike
  <2>6. ForwardInv'
    BY <1>1, <1>2, <2>4, Zenon DEF ForwardInv, Carries
  <2>7. before.dest = "absent" /\ ~script.created
    BY <1>1, <1>2, <1>3, Zenon DEF DestInv, ForwardInv
  <2>8. DestInv'
    BY <1>1, <2>2, <2>3, <2>4, <2>7, Zenon DEF DestInv, Carries
  <2>9. LegacyInv' /\ ModuleInv' /\ SocketInv'
    BY <1>1, <1>2, <2>2, <2>3, <2>4, LegacyKept, ModuleKept, SocketKept, Zenon DEF Alike, Carries
  <2>10. ScriptInv'
    BY <2>3, <2>4, <2>6, <2>8, <2>9, Zenon DEF ScriptInv
  <2> QED BY <1>2, <1>3, <2>4, <2>5, <2>10, Continues, Zenon
<1>4. CASE sys.dest = "template" /\ Go("module") /\ UNCHANGED <<sys, report>>
  <2>1. "module" \in Steps /\ "module" \in Early \ {"check_link"}
    BY StepNames, Zenon
  <2>2. script'.at = "module" /\ Carries
    BY <1>2, <1>4, <2>1, GoFacts, Zenon
  <2>3. 1 # 2 /\ 1 # 3
    OBVIOUS
  <2>4. ForwardInv'
    BY <1>1, <1>2, <1>4, <2>2, <2>3, Zenon DEF ForwardInv, Carries
  <2> QED BY <1>1, <1>4, <2>1, <2>4, QuietKept, Zenon
<1>5. CASE Exit("not_prepared") /\ UNCHANGED sys
  <2>1. Types' /\ ServicesWhole'
    BY <1>1, <1>2, <1>5, Zenon DEF Types, ServicesWhole, Exit
  <2> QED BY <1>5, <2>1, Stops, Zenon
<1> QED BY <1>3, <1>4, <1>5, Zenon DEF Link

LEMMA CheckLinkKept ==
    ASSUME Inv, CheckLink
    PROVE  Inv'
<1>1. script.at = "check_link" /\ script.at \in Forward /\ script.at # "idle" /\ UNCHANGED <<backup, before>>
  BY StepNames, Zenon DEF CheckLink, At
<1>2. Types /\ ServicesWhole /\ ScriptInv /\ ForwardInv /\ DestInv /\ LegacyInv /\ ModuleInv /\ SocketInv
      /\ script \in Scripts
  BY <1>1, Running, Zenon
<1>3. ASSUME script' = [script EXCEPT !.created = TRUE, !.at = "module"], UNCHANGED <<sys, report>>
      PROVE  Inv'
  <2>1. "module" \in Steps /\ "module" \in Forward
    BY StepNames, Zenon
  <2>2. script' \in Scripts
    BY <1>2, <1>3, <2>1 DEF Scripts
  <2>3. /\ script'.at = "module" /\ script'.created = TRUE
        /\ script'.target = script.target /\ script'.installed = script.installed
        /\ script'.touched = script.touched /\ script'.files = script.files /\ script'.next = script.next
        /\ script'.failed = script.failed /\ script'.enabled = script.enabled
        /\ script'.active = script.active /\ script'.service = script.service
    BY <1>2, <1>3 DEF Scripts
  <2>4. Types' /\ ServicesWhole'
    BY <1>1, <1>2, <1>3, <2>2, Zenon DEF Types, ServicesWhole
  <2>5. sys.dest = "template" /\ before.dest = "absent"
    BY <1>1, <1>2, Zenon DEF DestInv
  <2>6. 1 # 2 /\ 1 # 3
    OBVIOUS
  <2>7. ForwardInv'
    BY <1>1, <1>2, <1>3, <2>3, <2>5, <2>6, Zenon DEF ForwardInv
  <2>8. DestInv'
    BY <1>1, <1>3, <2>1, <2>3, <2>5, Zenon DEF DestInv
  <2>9. LegacyInv' /\ ModuleInv'
    BY <1>1, <1>2, <1>3, <2>3, LegacyKept, ModuleKept, Zenon
  <2>10. SocketInv'
    BY <1>1, <1>2, <1>3, <2>3, SocketKept, Zenon
  <2>11. ScriptInv'
    BY <2>1, <2>3, <2>7, <2>8, <2>9, <2>10, Zenon DEF ScriptInv
  <2> QED BY <1>2, <1>3, <2>2, <2>4, <2>11, Continues, Zenon
<1>4. CASE sys' = [sys EXCEPT !.dest = "absent"] /\ Exit("not_prepared")
  <2>1. sys' \in Systems /\ Alike(sys, sys', "dest") /\ "dest" # "legacy" /\ "dest" # "socket"
    BY <1>2, <1>4, NewDest, Zenon DEF Types
  <2>2. Types' /\ ServicesWhole'
    BY <1>1, <1>2, <1>4, <2>1, Zenon DEF Types, ServicesWhole, Exit, Alike
  <2> QED BY <1>4, <2>2, Stops, Zenon
<1> QED BY <1>3, <1>4, Zenon DEF CheckLink

LEMMA EnableSocketKept ==
    ASSUME Inv, EnableSocket
    PROVE  Inv'
<1>1. script.at = "enable" /\ script.at \in Forward \ {"check_link"} /\ script.at # "idle"
      /\ UNCHANGED <<backup, before, report>>
  BY StepNames, Zenon DEF EnableSocket, At, Quiet
<1>2. Types /\ ServicesWhole /\ ScriptInv /\ ForwardInv /\ DestInv /\ LegacyInv /\ ModuleInv /\ SocketInv
      /\ script \in Scripts
  BY <1>1, Running, Zenon
<1>3. PICK e \in BOOLEAN, a \in BOOLEAN, n \in 1..3, x \in {"migrate", "restore_legacy"} :
        /\ sys' = [sys EXCEPT !.enabled = e, !.active = a] /\ (sys.active => a)
        /\ script' = [script EXCEPT !.touched = TRUE, !.next = n, !.at = x]
        /\ x = "migrate" => e /\ a /\ n = 1
  <2>1. CASE /\ sys' = [sys EXCEPT !.enabled = TRUE, !.active = TRUE]
             /\ script' = [script EXCEPT !.touched = TRUE, !.next = 1, !.at = "migrate"]
    <3>1. 1 \in 1..3
      OBVIOUS
    <3> QED BY <2>1, <3>1, Zenon
  <2>2. ASSUME NEW e \in {sys.enabled, TRUE}, NEW a \in {sys.active, TRUE},
               sys' = [sys EXCEPT !.enabled = e, !.active = a],
               script' = [script EXCEPT !.touched = TRUE, !.at = "restore_legacy"]
        PROVE  \E b \in BOOLEAN, c \in BOOLEAN, n \in 1..3, x \in {"migrate", "restore_legacy"} :
                 /\ sys' = [sys EXCEPT !.enabled = b, !.active = c] /\ (sys.active => c)
                 /\ script' = [script EXCEPT !.touched = TRUE, !.next = n, !.at = x]
                 /\ x = "migrate" => b /\ c /\ n = 1
    <3>1. sys.enabled \in BOOLEAN /\ sys.active \in BOOLEAN
      BY <1>2, SystemFields, Zenon DEF Types
    <3>2. e \in BOOLEAN /\ a \in BOOLEAN /\ (sys.active => a)
      BY <2>2, <3>1, Zenon
    <3>3. script.next \in 1..3 /\ script' = [script EXCEPT !.touched = TRUE, !.next = script.next, !.at = "restore_legacy"]
      BY <1>2, <2>2 DEF Scripts
    <3>4. "restore_legacy" # "migrate"
      OBVIOUS
    <3> QED BY <2>2, <3>2, <3>3, <3>4, Zenon
  <2> QED BY <2>1, <2>2, Zenon DEF EnableSocket
<1>4. sys' \in Systems /\ Alike(sys, sys', "socket") /\ sys'.enabled = e /\ sys'.active = a
      /\ sys'.service = sys.service
  <2>1. sys \in Systems
    BY <1>2, Zenon DEF Types
  <2>2. sys' = Sock(sys, e, a, sys.service) /\ sys.service \in BOOLEAN
    BY <1>3, <2>1 DEF Sock, Systems
  <2> QED BY <1>3, <2>1, <2>2, NewSocket
<1>5. "socket" # "legacy" /\ "socket" # "dest" /\ "socket" # "modules" /\ x \in Steps /\ x \in Early
      /\ x \notin {"check_link", "restore_service", "restore_socket", "restore_daemon", "restore_enabled", "restore_modules"}
  BY <1>3, StepNames, Zenon
<1>6. script' \in Scripts
  BY <1>2, <1>3, <1>5 DEF Scripts
<1>7. /\ script'.at = x /\ script'.touched = TRUE /\ script'.next = n
      /\ script'.target = script.target /\ script'.installed = script.installed
      /\ script'.created = script.created /\ script'.files = script.files
      /\ script'.failed = script.failed /\ script'.enabled = script.enabled
      /\ script'.active = script.active /\ script'.service = script.service
  BY <1>2, <1>3 DEF Scripts
<1>8. Types' /\ ServicesWhole'
  BY <1>1, <1>2, <1>3, <1>4, <1>5, <1>6, Zenon DEF Types, ServicesWhole, Alike
<1>9. x \in Forward => ForwardInv'
  <2>1. 1 # 2 /\ 1 # 3
    OBVIOUS
  <2> QED BY <1>1, <1>2, <1>3, <1>4, <1>5, <1>7, <2>1, StepNames, Zenon DEF ForwardInv, Alike
<1>10. DestInv' /\ LegacyInv' /\ ModuleInv'
  BY <1>1, <1>2, <1>4, <1>5, <1>7, StepNames, DestKept, LegacyKept, ModuleKept, Zenon DEF Alike
<1>11. SocketInv'
  BY <1>1, <1>2, <1>5, <1>7, Zenon DEF SocketInv
<1>12. ScriptInv'
  BY <1>5, <1>7, <1>9, <1>10, <1>11, Zenon DEF ScriptInv, Early
<1> QED BY <1>1, <1>2, <1>6, <1>8, <1>12, Continues, Zenon

LEMMA LabelledKept ==
    ASSUME Inv, Labelled
    PROVE  Inv'
<1>1. script.at = "module" /\ script.at \in Forward \ {"check_link"} /\ script.at # "idle"
      /\ UNCHANGED <<sys, backup, before, report>>
  BY StepNames, Zenon DEF Labelled, At, Quiet
<1>2. ForwardInv /\ script \in Scripts
  BY <1>1, Running, Zenon
<1>3. CASE Go("enable")
  <2>1. "enable" \in Steps /\ "enable" \in Early \ {"check_link"}
    BY StepNames, Zenon
  <2>2. script'.at = "enable" /\ Carries
    BY <1>2, <1>3, <2>1, GoFacts, Zenon
  <2>3. ForwardInv'
    BY <1>1, <1>2, <2>2, Zenon DEF ForwardInv, Carries
  <2> QED BY <1>1, <1>3, <2>1, <2>3, QuietKept, Zenon
<1>4. CASE Go("restore_legacy")
  <2>1. "restore_legacy" \in Early \ {"check_link"} /\ "restore_legacy" \notin Forward
        /\ "restore_legacy" # "restore_service"
    BY StepNames, Zenon
  <2> QED BY <1>1, <1>4, <2>1, QuietKept, Zenon
<1> QED BY <1>3, <1>4, Zenon DEF Labelled, rollback_prepare

(* The module of a turn, and the list with it. *)
LEMMA NextModule ==
    ASSUME script \in Scripts, ForwardInv, script.at = "module", script.next <= Len(modules(script.target))
    PROVE  LET m == modules(script.target)[script.next]
               i == Append(script.installed, m)
           IN  /\ m \in Mods /\ i \in ModuleLists /\ script.next + 1 \in 2..3
               /\ ~On(m, script.installed)
               /\ \A y : On(y, i) <=> (On(y, script.installed) \/ y = m)
               /\ script.next = 1 => i = <<"kfaceauth">> /\ script.installed = <<>>
               /\ script.next + 1 = 3 => script.target = "sddm"
<1> DEFINE m == modules(script.target)[script.next]
           i == Append(script.installed, m)
<1>1. script.next \in 1..3
  BY DEF Scripts
<1>2. CASE script.next = 1
  <2>1. m = "kfaceauth"
    BY <1>2 DEF modules
  <2>2. script.installed = <<>>
    BY <1>2, Zenon DEF ForwardInv
  <2>3. i = <<"kfaceauth">>
    BY <2>1, <2>2, OneOrTwo, Zenon
  <2>4. script.next + 1 \in 2..3 /\ script.next + 1 # 3
    BY <1>2
  <2> HIDE DEF m, i
  <2>5. m \in Mods /\ i \in ModuleLists
    BY <2>1, <2>3, Zenon DEF Mods, ModuleLists
  <2>6. ~On(m, script.installed) /\ \A y : On(y, i) <=> (On(y, script.installed) \/ y = m)
    BY <2>1, <2>2, <2>3, OnList, Zenon
  <2> QED BY <2>2, <2>3, <2>4, <2>5, <2>6, Zenon DEF m, i
<1>3. CASE script.next # 1
  <2>1. script.target = "sddm" /\ script.next = 2
    BY <1>1, <1>3 DEF modules
  <2>2. m = "kfaceauth_sddm" /\ script.next + 1 \in 2..3
    BY <2>1 DEF modules
  <2>3. script.installed \in {<<>>, <<"kfaceauth">>}
    BY <2>1, Zenon DEF ForwardInv
  <2>4. i \in {<<"kfaceauth_sddm">>, <<"kfaceauth", "kfaceauth_sddm">>}
        /\ (script.installed = <<>> => i = <<"kfaceauth_sddm">>)
        /\ (script.installed = <<"kfaceauth">> => i = <<"kfaceauth", "kfaceauth_sddm">>)
    BY <2>2, <2>3, OneOrTwo, Zenon
  <2> HIDE DEF m, i
  <2>5. m \in Mods /\ i \in ModuleLists
    BY <2>2, <2>4, Zenon DEF Mods, ModuleLists
  <2>6. "kfaceauth_sddm" # "kfaceauth"
    OBVIOUS
  <2>7. ~On(m, script.installed) /\ \A y : On(y, i) <=> (On(y, script.installed) \/ y = m)
    <3>1. CASE script.installed = <<>>
      BY <2>2, <2>4, <3>1, OnList, Zenon
    <3>2. CASE script.installed = <<"kfaceauth">>
      BY <2>2, <2>4, <2>6, <3>2, OnList, Zenon
    <3> QED BY <2>3, <3>1, <3>2, Zenon
  <2> QED BY <1>3, <2>1, <2>2, <2>5, <2>7, Zenon DEF m, i
<1> QED BY <1>2, <1>3, Zenon

LEMMA InstallModuleKept ==
    ASSUME Inv, InstallModule
    PROVE  Inv'
<1> DEFINE m == modules(script.target)[script.next]
<1>1. script.at = "module" /\ script.at \in Forward \ {"check_link"} /\ script.at # "idle"
      /\ UNCHANGED <<backup, before, report>> /\ script.next <= Len(modules(script.target))
  BY StepNames, Zenon DEF InstallModule, At, Quiet
<1>2. Types /\ ServicesWhole /\ ScriptInv /\ ForwardInv /\ DestInv /\ LegacyInv /\ ModuleInv /\ SocketInv
      /\ script \in Scripts /\ sys \in Systems
  BY <1>1, Running, Zenon DEF Types
<1>3. CASE Go("restore_legacy") /\ UNCHANGED sys
  <2>1. "restore_legacy" \in Early \ {"check_link"} /\ "restore_legacy" \notin Forward
        /\ "restore_legacy" # "restore_service"
    BY StepNames, Zenon
  <2> QED BY <1>1, <1>3, <2>1, QuietKept, Zenon
<1>4. ASSUME NEW known \in module_installed(m), NEW l, NEW n, NEW x,
             l = (IF known THEN script.installed ELSE Append(script.installed, m)),
             \/ x = "module" /\ n = script.next + 1 /\ sys' = [sys EXCEPT !.modules[m] = "new"]
             \/ x = "restore_legacy" /\ n = script.next /\ sys' \in {sys, [sys EXCEPT !.modules[m] = "new"]},
             script' = [script EXCEPT !.installed = l, !.next = n, !.at = x]
      PROVE  Inv'
  <2>1. /\ m \in Mods /\ Append(script.installed, m) \in ModuleLists /\ script.next + 1 \in 2..3
        /\ ~On(m, script.installed)
        /\ \A y : On(y, Append(script.installed, m)) <=> (On(y, script.installed) \/ y = m)
        /\ script.next = 1 => Append(script.installed, m) = <<"kfaceauth">> /\ script.installed = <<>>
        /\ script.next + 1 = 3 => script.target = "sddm"
    BY <1>1, <1>2, NextModule, Zenon
  <2> HIDE DEF m
  <2>2. l \in ModuleLists /\ (\A y : On(y, l) <=> (On(y, script.installed) \/ (~known /\ y = m)))
        /\ (script.next = 1 => l \in {<<>>, <<"kfaceauth">>})
    <3>1. script.installed \in ModuleLists
      BY <1>2 DEF Scripts
    <3> QED BY <1>4, <2>1, <3>1, Zenon
  <2>3. x \in Steps /\ x \in Early /\ "modules" # "dest" /\ "modules" # "legacy" /\ "modules" # "socket"
        /\ x \notin {"check_link", "restore_service", "restore_socket", "restore_daemon", "restore_enabled", "restore_modules"}
    BY <1>4, StepNames, Zenon
  <2>4. n \in 1..3 /\ (x = "module" => n # 1 /\ (n = 2 => script.next = 1))
    BY <1>2, <1>4, <2>1 DEF Scripts
  <2>5. script' \in Scripts
    BY <1>2, <1>4, <2>2, <2>3, <2>4 DEF Scripts
  <2>6. /\ script'.at = x /\ script'.installed = l /\ script'.next = n
        /\ script'.target = script.target /\ script'.created = script.created
        /\ script'.touched = script.touched /\ script'.files = script.files
        /\ script'.failed = script.failed /\ script'.enabled = script.enabled
        /\ script'.active = script.active /\ script'.service = script.service
    BY <1>2, <1>4 DEF Scripts
  <2>7. /\ sys' \in Systems /\ Alike(sys, sys', "modules") /\ sys'.modules[m] \in {sys.modules[m], "new"}
        /\ \A y \in Mods : y # m => sys'.modules[y] = sys.modules[y]
    <3>1. CASE sys' = [sys EXCEPT !.modules[m] = "new"]
      <4>1. "new" \in {"absent", "new"} /\ sys \in Systems /\ m \in Mods
        BY <1>2, <2>1, Zenon
      <4>2. LET t == [sys EXCEPT !.modules[m] = "new"]
            IN  /\ t \in Systems /\ Alike(sys, t, "modules") /\ t.modules[m] = "new"
                /\ \A y \in Mods : y # m => t.modules[y] = sys.modules[y]
        BY <4>1, NewModule, Zenon
      <4> QED BY <3>1, <4>2, Zenon
    <3>2. CASE sys' = sys
      BY <1>2, <3>2, Zenon DEF Alike
    <3> QED BY <1>4, <3>1, <3>2, Zenon
  <2>8. Types' /\ ServicesWhole'
    BY <1>1, <1>2, <2>3, <2>5, <2>7, Zenon DEF Types, ServicesWhole, Alike
  <2>9. x \in Forward => ForwardInv'
    BY <1>1, <1>2, <1>4, <2>1, <2>2, <2>3, <2>4, <2>6, <2>7, StepNames, Zenon DEF ForwardInv, Alike
  <2>10. ModuleInv'
    <3>1. SUFFICES ASSUME QueriesExact, NEW y \in Mods
                   PROVE  IF On(y, l) THEN before.modules[y] = "absent"
                          ELSE script.failed \/ sys'.modules[y] = before.modules[y]
      BY <1>1, <2>6, Zenon DEF ModuleInv
    <3>2. known <=> sys.modules[m] # "absent"
      BY <1>4, <3>1, Zenon DEF module_installed, Reads, QueriesExact
    <3>3. ~script.failed
      BY <1>2, Zenon DEF ForwardInv
    <3>4. sys.modules[m] = before.modules[m]
      BY <1>2, <2>1, <3>1, <3>3, Zenon DEF ModuleInv
    <3>5. sys.modules[m] \in {"absent", "new"}
      BY <1>2, <2>1, <3>1, SystemFields, Zenon DEF QueriesExact
    <3>6. CASE y = m
      BY <2>1, <2>2, <2>7, <3>2, <3>4, <3>5, <3>6, Zenon
    <3>7. CASE y # m
      BY <1>2, <2>2, <2>7, <3>1, <3>7, Zenon DEF ModuleInv
    <3> QED BY <3>6, <3>7, Zenon
  <2>11. DestInv' /\ LegacyInv'
    BY <1>1, <1>2, <2>3, <2>6, <2>7, StepNames, DestKept, LegacyKept, Zenon DEF Alike
  <2>12. SocketInv'
    BY <1>1, <1>2, <2>3, <2>6, <2>7, SocketKept, Zenon DEF Alike
  <2>13. ScriptInv'
    BY <2>3, <2>6, <2>9, <2>10, <2>11, <2>12, Zenon DEF ScriptInv, Early
  <2> QED BY <1>1, <1>2, <2>5, <2>8, <2>13, Continues, Zenon
<1>5. ASSUME NEW known \in module_installed(m), NEW s, s = (IF known THEN script ELSE [script EXCEPT !.installed = Append(@, m)])
      PROVE  LET l == IF known THEN script.installed ELSE Append(script.installed, m)
             IN  /\ [s EXCEPT !.next = @ + 1] = [script EXCEPT !.installed = l, !.next = script.next + 1, !.at = "module"]
                 /\ [s EXCEPT !.at = "restore_legacy"] = [script EXCEPT !.installed = l, !.next = script.next, !.at = "restore_legacy"]
  <2> HIDE DEF m
  <2> QED BY <1>1, <1>2, <1>5 DEF Scripts
<1>6. ASSUME NEW known \in module_installed(m), NEW s, s = (IF known THEN script ELSE [script EXCEPT !.installed = Append(@, m)]),
             \/ sys' = [sys EXCEPT !.modules[m] = "new"] /\ script' = [s EXCEPT !.next = @ + 1]
             \/ /\ sys' \in {sys, [sys EXCEPT !.modules[m] = "new"]}
                /\ script' = [s EXCEPT !.at = "restore_legacy"]
      PROVE  Inv'
  <2> DEFINE l == IF known THEN script.installed ELSE Append(script.installed, m)
  <2>1. /\ [s EXCEPT !.next = @ + 1] = [script EXCEPT !.installed = l, !.next = script.next + 1, !.at = "module"]
        /\ [s EXCEPT !.at = "restore_legacy"] = [script EXCEPT !.installed = l, !.next = script.next, !.at = "restore_legacy"]
    BY <1>5, <1>6, Zenon
  <2>4. l = (IF known THEN script.installed ELSE Append(script.installed, m)) /\ known \in module_installed(m)
    BY <1>6, Zenon
  <2> HIDE DEF m, l
  <2>2. CASE sys' = [sys EXCEPT !.modules[m] = "new"] /\ script' = [s EXCEPT !.next = @ + 1]
    <3> DEFINE n == script.next + 1
               x == "module"
    <3>1. script' = [script EXCEPT !.installed = l, !.next = n, !.at = x]
      BY <2>1, <2>2, Zenon
    <3>2. \/ x = "module" /\ n = script.next + 1 /\ sys' = [sys EXCEPT !.modules[m] = "new"]
          \/ x = "restore_legacy" /\ n = script.next /\ sys' \in {sys, [sys EXCEPT !.modules[m] = "new"]}
      BY <2>2, Zenon
    <3> HIDE DEF n, x
    <3> QED BY <1>4, <2>4, <3>1, <3>2, Zenon
  <2>3. CASE sys' \in {sys, [sys EXCEPT !.modules[m] = "new"]} /\ script' = [s EXCEPT !.at = "restore_legacy"]
    <3> DEFINE n == script.next
               x == "restore_legacy"
    <3>1. script' = [script EXCEPT !.installed = l, !.next = n, !.at = x]
      BY <2>1, <2>3, Zenon
    <3>2. x = "restore_legacy" /\ n = script.next /\ sys' \in {sys, [sys EXCEPT !.modules[m] = "new"]}
      BY <2>3, Zenon
    <3> HIDE DEF n, x
    <3> QED BY <1>4, <2>4, <3>1, <3>2, Zenon
  <2> QED BY <1>6, <2>2, <2>3, Zenon
<1> QED BY <1>3, <1>6, Zenon DEF InstallModule, rollback_prepare

LEMMA BackUpKept ==
    ASSUME Inv, BackUp
    PROVE  Inv'
<1> DEFINE f == Legacy[script.next]
<1>1. script.at = "migrate" /\ script.at \in Forward \ {"check_link"} /\ script.at # "idle"
      /\ UNCHANGED <<sys, before, report>> /\ script.next <= 2
  BY StepNames, Zenon DEF BackUp, At
<1>2. Types /\ ServicesWhole /\ ScriptInv /\ ForwardInv /\ DestInv /\ LegacyInv /\ ModuleInv /\ SocketInv
      /\ script \in Scripts /\ sys \in Systems
  BY <1>1, Running, Zenon DEF Types
<1>3. \/ script.next = 1 /\ f = "sddm" /\ script.next + 1 = 2
      \/ script.next = 2 /\ f = "kde" /\ script.next + 1 = 3
  BY <1>1, <1>2 DEF Scripts, Legacy
<1>4. 1 # 2 /\ 1 # 3 /\ 2 # 3 /\ 2 \in 1..3 /\ 3 \in 1..3 /\ "sddm" # "kde"
  OBVIOUS
<1>5. Types' <=> (script' \in Scripts \/ script' = Idle) /\ backup' \in [Files -> {"none", "clean", "managed", "unmanaged"}]
  BY <1>1, <1>2, Zenon DEF Types
<1>6. ServicesWhole'
  BY <1>1, <1>2, Zenon DEF ServicesWhole
<1> HIDE DEF f
<1>7. ASSUME sys.legacy[f] = "clean", script' = [script EXCEPT !.next = @ + 1], UNCHANGED backup
      PROVE  Inv'
  <2>1. script' \in Scripts
    BY <1>2, <1>3, <1>4, <1>7 DEF Scripts
  <2>2. /\ script'.at = script.at /\ script'.next = script.next + 1
        /\ script'.target = script.target /\ script'.installed = script.installed
        /\ script'.created = script.created /\ script'.touched = script.touched
        /\ script'.files = script.files /\ script'.failed = script.failed
        /\ script'.enabled = script.enabled /\ script'.active = script.active /\ script'.service = script.service
    BY <1>2, <1>7 DEF Scripts
  <2>3. Types'
    BY <1>2, <1>5, <1>7, <2>1, Zenon DEF Types
  <2>4. ForwardInv'
    BY <1>1, <1>2, <1>3, <1>4, <1>7, <2>2, Zenon DEF ForwardInv
  <2>5. DestInv' /\ LegacyInv' /\ ModuleInv' /\ SocketInv'
    BY <1>1, <1>2, <1>7, <2>2, DestKept, LegacyKept, ModuleKept, SocketKept, Zenon
  <2>6. ScriptInv'
    BY <1>1, <2>2, <2>4, <2>5, StepNames, Zenon DEF ScriptInv
  <2> QED BY <1>1, <1>2, <1>6, <2>1, <2>3, <2>6, Continues, Zenon
<1>8. CASE Go("restore_legacy") /\ UNCHANGED backup
  <2>1. "restore_legacy" \in Early \ {"check_link"} /\ "restore_legacy" \notin Forward
        /\ "restore_legacy" # "restore_service"
    BY StepNames, Zenon
  <2> QED BY <1>1, <1>8, <2>1, QuietKept, Zenon
<1>9. ASSUME sys.legacy[f] = "managed", backup' = [backup EXCEPT ![f] = sys.legacy[f]],
             script' = [script EXCEPT !.files = Append(@, f), !.at = "strip"]
      PROVE  Inv'
  <2>1. f \in Files
    BY <1>3, Zenon DEF Files, LegacyFiles
  <2>2. /\ Append(script.files, f) \in FileLists /\ ~On(f, script.files)
        /\ \A y : On(y, Append(script.files, f)) <=> (On(y, script.files) \/ y = f)
        /\ script.next = 1 => Append(script.files, f) = <<"sddm">>
        /\ script.next = 2 => Append(script.files, f) \in {<<"kde">>, <<"sddm", "kde">>}
    <3>1. CASE script.next = 1
      <4>1. script.files = <<>> /\ f = "sddm" /\ Append(script.files, f) = <<"sddm">>
        BY <1>1, <1>2, <1>3, <1>4, <3>1, OneOrTwo, Zenon DEF ForwardInv
      <4> QED BY <1>4, <3>1, <4>1, OnList, Zenon DEF FileLists
    <3>2. CASE script.next = 2
      <4>1. script.files \in {<<>>, <<"sddm">>} /\ f = "kde"
        BY <1>1, <1>2, <1>3, <1>4, <3>2, Zenon DEF ForwardInv
      <4>2. CASE script.files = <<>>
        <5>1. Append(script.files, f) = <<"kde">>
          BY <4>1, <4>2, OneOrTwo, Zenon
        <5> QED BY <1>4, <3>2, <4>1, <4>2, <5>1, OnList, Zenon DEF FileLists
      <4>3. CASE script.files = <<"sddm">>
        <5>1. Append(script.files, f) = <<"sddm", "kde">>
          BY <4>1, <4>3, OneOrTwo, Zenon
        <5> QED BY <1>4, <3>2, <4>1, <4>3, <5>1, OnList, Zenon DEF FileLists
      <4> QED BY <4>1, <4>2, <4>3, Zenon
    <3> QED BY <1>3, <3>1, <3>2, Zenon
  <2>3. "strip" \in Steps /\ "strip" \in Forward
        /\ "strip" \notin {"check_link", "restore_daemon", "restore_enabled", "restore_modules"}
    BY StepNames, Zenon
  <2>4. script' \in Scripts
    BY <1>2, <1>9, <2>2, <2>3 DEF Scripts
  <2>5. /\ script'.at = "strip" /\ script'.files = Append(script.files, f)
        /\ script'.target = script.target /\ script'.installed = script.installed
        /\ script'.created = script.created /\ script'.touched = script.touched
        /\ script'.next = script.next /\ script'.failed = script.failed
        /\ script'.enabled = script.enabled /\ script'.active = script.active /\ script'.service = script.service
    BY <1>2, <1>9 DEF Scripts
  <2>6. /\ backup' \in [Files -> {"none", "clean", "managed", "unmanaged"}]
        /\ backup'[f] = "managed" /\ \A y \in Files : y # f => backup'[y] = backup[y]
    BY <1>2, <1>9, <2>1 DEF Types
  <2>7. Types'
    BY <1>5, <2>4, <2>6, Zenon
  <2>8. ForwardInv'
    BY <1>1, <1>2, <1>3, <1>4, <2>2, <2>5, Zenon DEF ForwardInv
  <2>9. DestInv' /\ ModuleInv' /\ SocketInv'
    BY <1>1, <1>2, <2>3, <2>5, StepNames, DestKept, ModuleKept, SocketKept, Zenon
  <2>10. LegacyInv'
    <3>1. SUFFICES ASSUME NEW y \in Files
                   PROVE  IF On(y, Append(script.files, f))
                          THEN before.legacy[y] = "managed" /\ backup'[y] = "managed" /\ sys.legacy[y] \in {"managed", "clean"}
                          ELSE script.failed \/ sys.legacy[y] = before.legacy[y]
      BY <1>1, <2>5, Zenon DEF LegacyInv
    <3>2. ~script.failed
      BY <1>2, Zenon DEF ForwardInv
    <3>3. CASE y = f
      <4>1. before.legacy[f] = "managed"
        BY <1>2, <1>9, <2>1, <2>2, <3>2, Zenon DEF LegacyInv
      <4> QED BY <1>9, <2>2, <2>6, <3>3, <4>1, Zenon
    <3>4. CASE y # f
      BY <1>2, <2>2, <2>6, <3>1, <3>4, Zenon DEF LegacyInv
    <3> QED BY <3>3, <3>4, Zenon
  <2>11. ScriptInv'
    BY <2>3, <2>5, <2>8, <2>9, <2>10, StepNames, Zenon DEF ScriptInv
  <2> QED BY <1>1, <1>2, <1>6, <2>4, <2>7, <2>11, Continues, Zenon
<1> QED BY <1>7, <1>8, <1>9, Zenon DEF BackUp, rollback_prepare, f

LEMMA StripKept ==
    ASSUME Inv, Strip
    PROVE  Inv'
<1> DEFINE f == Legacy[script.next]
<1>1. script.at = "strip" /\ script.at \in Forward \ {"check_link"} /\ script.at # "idle"
      /\ UNCHANGED <<backup, before, report>>
  BY StepNames, Zenon DEF Strip, At, Quiet
<1>2. Types /\ ServicesWhole /\ ScriptInv /\ ForwardInv /\ DestInv /\ LegacyInv /\ ModuleInv /\ SocketInv
      /\ script \in Scripts /\ sys \in Systems
  BY <1>1, Running, Zenon DEF Types
<1>3. CASE Go("restore_legacy") /\ UNCHANGED sys
  <2>1. "restore_legacy" \in Early \ {"check_link"} /\ "restore_legacy" \notin Forward
        /\ "restore_legacy" # "restore_service"
    BY StepNames, Zenon
  <2> QED BY <1>1, <1>3, <2>1, QuietKept, Zenon
<1>4. ASSUME sys' = [sys EXCEPT !.legacy[f] = "clean"], script' = [script EXCEPT !.next = @ + 1, !.at = "migrate"]
      PROVE  Inv'
  <2>1. \/ script.next = 1 /\ script.files = <<"sddm">>
        \/ script.next = 2 /\ script.files \in {<<"kde">>, <<"sddm", "kde">>}
    BY <1>1, <1>2, Zenon DEF ForwardInv
  <2>2. \/ script.next = 1 /\ f = "sddm" /\ script.next + 1 = 2
        \/ script.next = 2 /\ f = "kde" /\ script.next + 1 = 3
    BY <2>1 DEF Legacy
  <2>3. 1 # 2 /\ 1 # 3 /\ 2 # 3 /\ 2 \in 1..3 /\ 3 \in 1..3 /\ "sddm" # "kde"
    OBVIOUS
  <2> HIDE DEF f
  <2>4. f \in Files /\ "sddm" \in Files /\ "kde" \in Files /\ On(f, script.files)
    BY <2>1, <2>2, <2>3, OnList, Zenon DEF Files, LegacyFiles
  <2>5. "migrate" \in Steps /\ "migrate" \in Forward /\ "legacy" # "dest" /\ "legacy" # "modules" /\ "legacy" # "socket"
        /\ "migrate" \notin {"check_link", "restore_daemon", "restore_enabled", "restore_modules"}
    BY StepNames, Zenon
  <2>6. /\ sys' \in Systems /\ Alike(sys, sys', "legacy") /\ sys'.legacy[f] = "clean"
        /\ \A y \in Files : y # f => sys'.legacy[y] = sys.legacy[y]
    <3>1. "clean" \in {"clean", "managed", "unmanaged"}
      BY Zenon
    <3>2. LET t == [sys EXCEPT !.legacy[f] = "clean"]
          IN  /\ t \in Systems /\ Alike(sys, t, "legacy") /\ t.legacy[f] = "clean"
              /\ \A y \in Files : y # f => t.legacy[y] = sys.legacy[y]
      BY <1>2, <2>4, <3>1, NewLegacy, Zenon
    <3> QED BY <1>4, <3>2, Zenon
  <2>7. script' \in Scripts
    BY <1>2, <1>4, <2>2, <2>3, <2>5 DEF Scripts
  <2>8. /\ script'.at = "migrate" /\ script'.next = script.next + 1
        /\ script'.target = script.target /\ script'.installed = script.installed
        /\ script'.created = script.created /\ script'.touched = script.touched
        /\ script'.files = script.files /\ script'.failed = script.failed
        /\ script'.enabled = script.enabled /\ script'.active = script.active /\ script'.service = script.service
    BY <1>2, <1>4 DEF Scripts
  <2>9. Types'
    BY <1>1, <1>2, <2>5, <2>6, <2>7, Zenon DEF Types, Alike
  <2>10. ServicesWhole'
    <3>1. before.legacy[f] = "managed"
      BY <1>2, <2>4, Zenon DEF LegacyInv
    <3>2. SUFFICES ASSUME NEW y \in Files
                   PROVE  sys'.legacy[y] \in {before.legacy[y]} \cup (IF before.legacy[y] = "managed" THEN {"clean"} ELSE {})
      BY <1>1, Zenon DEF ServicesWhole, Files
    <3>3. CASE y = f
      BY <2>6, <3>1, <3>3, Zenon
    <3>4. CASE y # f
      BY <1>2, <2>6, <3>4, Zenon DEF ServicesWhole, Files
    <3> QED BY <3>3, <3>4, Zenon
  <2>11. ForwardInv'
    BY <1>1, <1>2, <2>1, <2>2, <2>3, <2>4, <2>5, <2>6, <2>8, Zenon DEF ForwardInv, Alike
  <2>12. DestInv' /\ ModuleInv' /\ SocketInv'
    BY <1>1, <1>2, <2>5, <2>6, <2>8, StepNames, DestKept, ModuleKept, SocketKept, Zenon DEF Alike
  <2>13. LegacyInv'
    <3>1. SUFFICES ASSUME NEW y \in Files
                   PROVE  IF On(y, script.files)
                          THEN before.legacy[y] = "managed" /\ backup[y] = "managed" /\ sys'.legacy[y] \in {"managed", "clean"}
                          ELSE script.failed \/ sys'.legacy[y] = before.legacy[y]
      BY <1>1, <2>8, Zenon DEF LegacyInv
    <3>2. CASE y = f
      BY <1>2, <2>4, <2>6, <3>2, Zenon DEF LegacyInv
    <3>3. CASE y # f
      BY <1>2, <2>6, <3>3, Zenon DEF LegacyInv
    <3> QED BY <3>2, <3>3, Zenon
  <2>14. ScriptInv'
    BY <2>5, <2>8, <2>11, <2>12, <2>13, StepNames, Zenon DEF ScriptInv
  <2> QED BY <1>1, <1>2, <2>7, <2>9, <2>10, <2>14, Continues, Zenon
<1> QED BY <1>3, <1>4, Zenon DEF Strip, rollback_prepare

LEMMA PreparedKept ==
    ASSUME Inv, Prepared
    PROVE  Inv'
<1>1. script.at = "migrate" /\ script.at \in Forward /\ script.at # "idle" /\ script.next > 2
      /\ UNCHANGED <<sys, before>> /\ script' = Idle /\ report' = "prepared"
  BY StepNames, Zenon DEF Prepared, At, Exit
<1>2. Types /\ ServicesWhole /\ ForwardInv /\ script \in Scripts
  BY <1>1, Running, Zenon
<1>3. script.next = 3 /\ script.next # 1
  BY <1>1, <1>2 DEF Scripts
<1>4. backup' \in [Files -> {"none", "clean", "managed", "unmanaged"}]
  <2>1. PICK left \in SUBSET LegacyFiles : backup' = [f \in LegacyFiles |-> IF f \in left THEN backup[f] ELSE "none"]
    BY Zenon DEF Prepared
  <2> QED BY <1>2, <2>1 DEF Types, Files
<1>5. Types' /\ ServicesWhole'
  BY <1>1, <1>2, <1>4, Zenon DEF Types, ServicesWhole
<1>6. PreparedAsReported'
  BY <1>1, <1>2, <1>3, Zenon DEF PreparedAsReported, ForwardInv, LegacyFiles
<1>7. "prepared" # "restored"
  OBVIOUS
<1> QED BY <1>1, <1>5, <1>6, <1>7, Zenon DEF Inv

LEMMA RestoreLegacyKept ==
    ASSUME Inv, RestoreLegacy
    PROVE  Inv'
<1>1. script.at = "restore_legacy" /\ script.at \notin Forward /\ script.at \in Early /\ script.at # "check_link"
      /\ script.at # "idle" /\ UNCHANGED <<before, report>>
      /\ script.at \notin {"restore_socket", "restore_daemon", "restore_enabled", "restore_modules"}
  BY StepNames, Zenon DEF RestoreLegacy, At
<1>2. Types /\ ServicesWhole /\ DestInv /\ LegacyInv /\ ModuleInv /\ SocketInv
      /\ script \in Scripts /\ sys \in Systems
  BY <1>1, Running, Zenon DEF Types
<1>3. ASSUME script.files = <<>>, Go("restore_service"), UNCHANGED <<sys, backup>>
      PROVE  Inv'
  <2>1. "restore_service" \in Steps /\ "restore_service" \in Early /\ "restore_service" \notin Forward
        /\ "restore_service" # "check_link"
        /\ "restore_service" \notin {"restore_socket", "restore_daemon", "restore_enabled", "restore_modules"}
    BY StepNames, Zenon
  <2>2. script' \in Scripts /\ script'.at = "restore_service" /\ Carries
    BY <1>2, <1>3, <2>1, GoFacts, Zenon
  <2>3. Types' /\ ServicesWhole'
    BY <1>1, <1>2, <1>3, <2>2, Zenon DEF Types, ServicesWhole
  <2>4. DestInv' /\ LegacyInv' /\ ModuleInv' /\ SocketInv'
    BY <1>1, <1>2, <1>3, <2>1, <2>2, DestKept, LegacyKept, ModuleKept, SocketKept, Zenon DEF Carries
  <2>5. ScriptInv'
    BY <1>3, <2>1, <2>2, <2>4, Zenon DEF ScriptInv, Carries
  <2> QED BY <1>1, <1>2, <2>2, <2>3, <2>5, Continues, Zenon
<1>4. ASSUME script.files # <<>>,
             LET f == Latest(script.files)
                 rest == Earlier(script.files)
                 missed == script' = [script EXCEPT !.files = rest, !.failed = TRUE]
                 back == sys' = [sys EXCEPT !.legacy[f] = backup[f]]
             IN  \/ missed /\ UNCHANGED <<sys, backup>>
                 \/ back /\ missed /\ UNCHANGED backup
                 \/ back /\ backup' = [backup EXCEPT ![f] = "none"] /\ script' = [script EXCEPT !.files = rest]
      PROVE  Inv'
  <2> DEFINE f == Latest(script.files)
             rest == Earlier(script.files)
  <2>1. script.files \in FileLists /\ script.failed \in BOOLEAN
    BY <1>2 DEF Scripts
  <2>2. f \in Files /\ rest \in FileLists /\ ~On(f, rest) /\ \A y : On(y, script.files) <=> (y = f \/ On(y, rest))
    BY <1>4, <2>1, Popped, Zenon
  <2>3. \/ script' = [script EXCEPT !.files = rest, !.failed = TRUE] /\ UNCHANGED <<sys, backup>>
        \/ script' = [script EXCEPT !.files = rest, !.failed = TRUE] /\ sys' = [sys EXCEPT !.legacy[f] = backup[f]]
           /\ UNCHANGED backup
        \/ script' = [script EXCEPT !.files = rest] /\ sys' = [sys EXCEPT !.legacy[f] = backup[f]]
           /\ backup' = [backup EXCEPT ![f] = "none"]
    BY <1>4, Zenon
  <2> HIDE DEF f, rest
  <2>4. before.legacy[f] = "managed" /\ backup[f] = "managed" /\ sys.legacy[f] \in {"managed", "clean"}
    BY <1>2, <2>2, Zenon DEF LegacyInv
  <2>5. script' \in Scripts
    BY <1>2, <2>2, <2>3 DEF Scripts
  <2>6. /\ script'.at = script.at /\ script'.files = rest /\ script'.next = script.next
        /\ script'.target = script.target /\ script'.installed = script.installed
        /\ script'.created = script.created /\ script'.touched = script.touched
        /\ script'.enabled = script.enabled /\ script'.active = script.active /\ script'.service = script.service
        /\ script.failed => script'.failed
    BY <1>2, <2>3 DEF Scripts
  <2>7. script'.failed \/ sys' = [sys EXCEPT !.legacy[f] = backup[f]]
    BY <1>2, <2>3 DEF Scripts
  <2>8. /\ sys' \in Systems /\ Alike(sys, sys', "legacy") /\ sys'.legacy[f] \in {"managed", "clean"}
        /\ \A y \in Files : y # f => sys'.legacy[y] = sys.legacy[y]
        /\ script'.failed \/ sys'.legacy[f] = "managed"
    <3>1. "managed" \in {"clean", "managed", "unmanaged"}
      BY Zenon
    <3>2. LET t == [sys EXCEPT !.legacy[f] = "managed"]
          IN  /\ t \in Systems /\ Alike(sys, t, "legacy") /\ t.legacy[f] = "managed"
              /\ \A y \in Files : y # f => t.legacy[y] = sys.legacy[y]
      BY <1>2, <2>2, <3>1, NewLegacy, Zenon
    <3>3. CASE sys' = [sys EXCEPT !.legacy[f] = backup[f]]
      BY <2>4, <3>2, <3>3, Zenon
    <3>4. CASE sys' = sys
      <4>1. Alike(sys, sys', "legacy")
        BY <3>4, Zenon DEF Alike
      <4>2. script'.failed \/ sys'.legacy[f] = "managed"
        BY <2>7, <3>2, <2>4, Zenon
      <4> QED BY <1>2, <2>4, <3>4, <4>1, <4>2, Zenon
    <3> QED BY <2>3, <3>3, <3>4, Zenon
  <2>9. /\ backup' \in [Files -> {"none", "clean", "managed", "unmanaged"}]
        /\ \A y \in Files : y # f => backup'[y] = backup[y]
    BY <1>2, <2>2, <2>3 DEF Types
  <2>10. Types'
    <3>1. "legacy" # "socket"
      OBVIOUS
    <3> QED BY <1>1, <1>2, <2>5, <2>8, <2>9, <3>1, Zenon DEF Types, Alike
  <2>11. ServicesWhole'
    <3>1. SUFFICES ASSUME NEW y \in Files
                   PROVE  sys'.legacy[y] \in {before.legacy[y]} \cup (IF before.legacy[y] = "managed" THEN {"clean"} ELSE {})
      BY <1>1, Zenon DEF ServicesWhole, Files
    <3>2. CASE y = f
      BY <2>4, <2>8, <3>2, Zenon
    <3>3. CASE y # f
      BY <1>2, <2>8, <3>3, Zenon DEF ServicesWhole, Files
    <3> QED BY <3>2, <3>3, Zenon
  <2>12. LegacyInv'
    <3>1. SUFFICES ASSUME NEW y \in Files
                   PROVE  IF On(y, rest)
                          THEN before.legacy[y] = "managed" /\ backup'[y] = "managed" /\ sys'.legacy[y] \in {"managed", "clean"}
                          ELSE script'.failed \/ sys'.legacy[y] = before.legacy[y]
      BY <1>1, <2>6, Zenon DEF LegacyInv
    <3>2. CASE y = f
      BY <2>2, <2>4, <2>8, <3>2, Zenon
    <3>3. CASE y # f
      <4>1. On(y, rest) <=> On(y, script.files)
        BY <2>2, <3>3, Zenon
      <4> QED BY <1>2, <2>6, <2>8, <2>9, <3>3, <4>1, Zenon DEF LegacyInv
    <3> QED BY <3>2, <3>3, Zenon
  <2>13. DestInv' /\ ModuleInv' /\ SocketInv'
    <3>1. "legacy" # "dest" /\ "legacy" # "modules" /\ "legacy" # "socket"
      OBVIOUS
    <3> QED BY <1>1, <1>2, <2>6, <2>8, <3>1, DestKept, ModuleKept, SocketKept, Zenon DEF Alike
  <2>14. ScriptInv'
    BY <1>1, <2>6, <2>12, <2>13, Zenon DEF ScriptInv
  <2> QED BY <1>1, <1>2, <2>5, <2>10, <2>11, <2>14, Continues, Zenon
<1> QED BY <1>3, <1>4, Zenon DEF RestoreLegacy, Latest, Earlier

(* A command of the rollback that goes on to a given step, and may be      *)
(* noted as failed.                                                        *)
Onward(x) ==
    /\ script' \in Scripts /\ script'.at = x
    /\ script'.target = script.target /\ script'.installed = script.installed
    /\ script'.created = script.created /\ script'.touched = script.touched
    /\ script'.files = script.files /\ script'.next = script.next
    /\ script'.enabled = script.enabled /\ script'.active = script.active /\ script'.service = script.service
    /\ script.failed => script'.failed

LEMMA OnwardFacts ==
    ASSUME script \in Scripts, NEW x \in Steps,
           Go(x) \/ script' = [script EXCEPT !.failed = TRUE, !.at = x]
    PROVE  Onward(x) /\ (Go(x) \/ script'.failed)
<1>1. CASE Go(x)
  BY <1>1, GoFacts, Zenon DEF Onward, Carries
<1>2. CASE script' = [script EXCEPT !.failed = TRUE, !.at = x]
  <2>1. script' \in Scripts
    BY <1>2 DEF Scripts
  <2>2. script'.failed /\ Onward(x)
    BY <1>2, <2>1 DEF Scripts, Onward
  <2> QED BY <2>2, Zenon
<1> QED BY <1>1, <1>2, Zenon

LEMMA RestoreServiceKept ==
    ASSUME Inv, RestoreService
    PROVE  Inv'
<1> DEFINE x == IF script.touched THEN "restore_socket" ELSE "restore_modules"
<1>1. script.at = "restore_service" /\ script.at \notin Forward /\ script.at # "restore_legacy"
      /\ script.at # "idle" /\ script.at # "check_link" /\ script.at \in Early /\ UNCHANGED <<backup, before, report>>
  BY StepNames, Zenon DEF RestoreService, At, Quiet
<1>2. Types /\ ServicesWhole /\ DestInv /\ LegacyInv /\ ModuleInv /\ SocketInv
      /\ script \in Scripts /\ sys \in Systems /\ script.files = <<>>
  BY <1>1, Running, Zenon DEF Types, ScriptInv
<1>3. x \in Steps /\ x \notin Early /\ x \notin Forward /\ x # "check_link" /\ x # "restore_legacy"
      /\ x \notin {"restore_daemon", "restore_enabled"} /\ (x = "restore_socket" => script.touched)
      /\ (x = "restore_modules" => ~script.touched)
  BY StepNames, Zenon DEF Steps
<1>4. \/ sys' = (IF script.created THEN [sys EXCEPT !.dest = "absent"] ELSE sys) /\ Go(x)
      \/ script.created /\ script' = [script EXCEPT !.failed = TRUE, !.at = x] /\ UNCHANGED sys
  BY Zenon DEF RestoreService
<1> HIDE DEF x
<1>5. Onward(x) /\ (Go(x) \/ script'.failed)
  BY <1>2, <1>3, <1>4, OnwardFacts, Zenon
<1>6. sys' \in Systems /\ Alike(sys, sys', "dest") /\ (script.created \/ sys' = sys)
      /\ (script'.failed \/ sys'.dest = before.dest \/ (sys' = sys /\ ~script.created))
  <2>1. "absent" \in {"absent", "template", "custom"}
    BY Zenon
  <2>2. LET t == [sys EXCEPT !.dest = "absent"] IN t \in Systems /\ t.dest = "absent" /\ Alike(sys, t, "dest")
    BY <1>2, <2>1, NewDest, Zenon
  <2>3. script.created => before.dest = "absent"
    BY <1>1, <1>2, Zenon DEF DestInv, Early
  <2>4. CASE script.created /\ sys' = [sys EXCEPT !.dest = "absent"]
    BY <2>2, <2>3, <2>4, Zenon
  <2>5. CASE ~script.created /\ sys' = sys
    BY <1>2, <2>5, Zenon DEF Alike
  <2>6. CASE script.created /\ script' = [script EXCEPT !.failed = TRUE, !.at = x] /\ sys' = sys
    <3>1. script'.failed
      BY <1>2, <2>6 DEF Scripts
    <3> QED BY <1>2, <2>6, <3>1, Zenon DEF Alike
  <2> QED BY <1>4, <2>4, <2>5, <2>6, Zenon
<1>7. "dest" # "legacy" /\ "dest" # "modules" /\ "dest" # "socket"
  OBVIOUS
<1>8. Types' /\ ServicesWhole'
  BY <1>1, <1>2, <1>5, <1>6, <1>7, Zenon DEF Types, ServicesWhole, Alike, Onward
<1>9. DestInv'
  <2>1. ~script.created => sys'.dest = before.dest
    BY <1>1, <1>2, <1>6, Zenon DEF DestInv
  <2>2. script'.failed \/ sys'.dest = before.dest
    BY <1>6, <2>1, Zenon
  <2> QED BY <1>1, <1>3, <1>5, <2>1, <2>2, Zenon DEF DestInv, Onward, Early
<1>10. LegacyInv' /\ ModuleInv'
  BY <1>1, <1>2, <1>5, <1>6, <1>7, LegacyKept, ModuleKept, Zenon DEF Onward, Alike
<1>11. SocketInv'
  BY <1>1, <1>2, <1>3, <1>5, <1>6, <1>7, Zenon DEF SocketInv, Onward, Alike
<1>12. ScriptInv'
  BY <1>2, <1>3, <1>5, <1>9, <1>10, <1>11, Zenon DEF ScriptInv, Onward
<1> QED BY <1>1, <1>2, <1>5, <1>8, <1>12, Continues, Zenon DEF Onward

(* The three commands on the units: what they have in common. *)
LEMMA UnitKept ==
    ASSUME Inv, script.at \in {"restore_socket", "restore_daemon", "restore_enabled"},
           NEW x \in {"restore_daemon", "restore_enabled", "restore_modules"}, Onward(x),
           UNCHANGED <<backup, before, report>>,
           sys' \in Systems, Alike(sys, sys', "socket"), sys'.service => sys'.active,
           QueriesExact /\ ~script'.failed => sys'.active = before.active,
           QueriesExact /\ ~script'.failed /\ x = "restore_modules" => sys'.enabled = before.enabled
    PROVE  Inv'
<1>1. script.at \notin Early /\ script.at \notin Forward /\ script.at # "idle" /\ script.at # "check_link"
      /\ script.at # "restore_legacy"
  BY StepNames, Zenon
<1>2. x \notin Early /\ x \notin Forward /\ x # "check_link" /\ x # "restore_legacy"
  BY StepNames, Zenon
<1>3. Types /\ ServicesWhole /\ DestInv /\ LegacyInv /\ ModuleInv /\ SocketInv /\ script \in Scripts
      /\ script.files = <<>> /\ script.touched
  BY <1>1, Running, Zenon DEF ScriptInv
<1>4. "socket" # "legacy" /\ "socket" # "modules" /\ "socket" # "dest"
  OBVIOUS
<1>5. Types' /\ ServicesWhole'
  BY <1>3, <1>4, Zenon DEF Types, ServicesWhole, Alike, Onward
<1>6. DestInv' /\ LegacyInv' /\ ModuleInv'
  BY <1>1, <1>2, <1>3, <1>4, DestKept, LegacyKept, ModuleKept, Zenon DEF Onward, Alike
<1>7. SocketInv'
  BY <1>3, Zenon DEF SocketInv, Onward
<1>8. ScriptInv'
  BY <1>2, <1>3, <1>6, <1>7, Zenon DEF ScriptInv, Onward
<1> QED BY <1>3, <1>5, <1>8, Continues, Zenon DEF Onward

LEMMA RestoreSocketKept ==
    ASSUME Inv, RestoreSocket
    PROVE  Inv'
<1>1. ASSUME NEW effect \in Systems, NEW x \in {"restore_daemon", "restore_enabled", "restore_modules"},
             script.at \in {"restore_socket", "restore_daemon", "restore_enabled"}, systemctl(effect, x),
             Alike(sys, effect, "socket"), effect.service => effect.active,
             QueriesExact /\ ~script.failed => effect.active = before.active,
             QueriesExact /\ ~script.failed /\ x = "restore_modules" => effect.enabled = before.enabled
      PROVE  Inv'
  <2>1. script \in Scripts /\ Types /\ x \in Steps
    <3>1. script.at # "idle" /\ x \in Steps
      BY <1>1, StepNames, Zenon
    <3> QED BY <3>1, Running, Zenon
  <2>2. \/ sys' = effect /\ Go(x)
        \/ sys' \in {sys, effect} /\ script' = [script EXCEPT !.failed = TRUE, !.at = x]
    BY <1>1, Zenon DEF systemctl
  <2>3. Onward(x) /\ (Go(x) \/ script'.failed)
    BY <2>1, <2>2, OnwardFacts, Zenon
  <2>4. sys' \in {sys, effect} /\ (script'.failed \/ sys' = effect)
    <3>1. script' = [script EXCEPT !.failed = TRUE, !.at = x] => script'.failed
      BY <2>1 DEF Scripts
    <3> QED BY <2>2, <3>1, Zenon
  <2>5. Alike(sys, sys, "socket") /\ sys \in Systems /\ (sys.service => sys.active)
    BY <2>1, Zenon DEF Alike, Types
  <2>6. sys' \in Systems /\ Alike(sys, sys', "socket") /\ (sys'.service => sys'.active)
    BY <1>1, <2>4, <2>5, Zenon
  <2>7. /\ QueriesExact /\ ~script'.failed => sys'.active = before.active
        /\ QueriesExact /\ ~script'.failed /\ x = "restore_modules" => sys'.enabled = before.enabled
    BY <1>1, <2>3, <2>4, Zenon DEF Onward
  <2>8. UNCHANGED <<backup, before, report>>
    BY <1>1, Zenon DEF systemctl, Quiet
  <2> QED BY <1>1, <2>3, <2>6, <2>7, <2>8, UnitKept, Zenon
<1>2. ASSUME script.at \in {"restore_socket", "restore_daemon", "restore_enabled"}
      PROVE  /\ sys \in Systems /\ before \in Systems /\ (sys.service => sys.active) /\ (before.service => before.active)
             /\ SocketInv /\ sys.enabled \in BOOLEAN /\ sys.active \in BOOLEAN /\ sys.service \in BOOLEAN
             /\ script.enabled \in BOOLEAN /\ script.active \in BOOLEAN /\ script.service \in BOOLEAN
  <2>1. script.at # "idle"
    BY <1>2, Zenon
  <2>2. script \in Scripts /\ Types /\ SocketInv
    BY <2>1, Running, Zenon
  <2>3. script.enabled \in BOOLEAN /\ script.active \in BOOLEAN /\ script.service \in BOOLEAN
    BY <2>2 DEF Scripts
  <2> QED BY <2>2, <2>3, SystemFields, Zenon DEF Types
<1>3. ASSUME script.at = "restore_socket", systemctl(socket(script.active), "restore_daemon")
      PROVE  Inv'
  <2> DEFINE effect == socket(script.active)
             v == IF script.active THEN sys.service ELSE FALSE
  <2>1. effect = Sock(sys, sys.enabled, script.active, v) /\ v \in BOOLEAN
    BY <1>2, <1>3 DEF socket, Sock, Systems
  <2>6. v => script.active
    BY Zenon
  <2>7. sys \in Systems /\ sys.enabled \in BOOLEAN /\ script.active \in BOOLEAN
    BY <1>2, <1>3, Zenon
  <2> HIDE DEF v, effect
  <2>2. effect \in Systems /\ Alike(sys, effect, "socket") /\ effect.active = script.active /\ effect.service = v
    <3>1. PICK w \in BOOLEAN : w = v
      BY <2>1
    <3> DEFINE t == Sock(sys, sys.enabled, script.active, w)
    <3>2. t \in Systems /\ Alike(sys, t, "socket")
      BY <2>7, NewSocket
    <3>3. t.active = script.active
      BY <2>7 DEF Sock, Systems
    <3>4. t.service = w
      BY <2>7, NewSocket
    <3>5. effect = t
      BY <2>1, <3>1, Zenon
    <3> QED BY <3>1, <3>2, <3>3, <3>4, <3>5, Zenon
  <2>3. QueriesExact => effect.active = before.active
    BY <1>2, <1>3, <2>2, Zenon DEF SocketInv
  <2>4. systemctl(effect, "restore_daemon") /\ "restore_daemon" # "restore_modules"
    BY <1>3, Zenon DEF effect
  <2>5. effect.service => effect.active
    BY <2>2, <2>6, Zenon
  <2> QED BY <1>1, <1>3, <2>2, <2>3, <2>4, <2>5, Zenon
<1>4. ASSUME script.at = "restore_daemon", systemctl(service(script.service), "restore_enabled")
      PROVE  Inv'
  <2> DEFINE effect == service(script.service)
             a == IF script.service THEN TRUE ELSE sys.active
  <2>1. effect = Sock(sys, sys.enabled, a, script.service) /\ a \in BOOLEAN
    BY <1>2, <1>4 DEF service, Sock, Systems
  <2>6. (script.service => a) /\ (~script.service => a = sys.active)
    BY Zenon
  <2>7. sys \in Systems /\ sys.enabled \in BOOLEAN /\ script.service \in BOOLEAN
    BY <1>2, <1>4, Zenon
  <2> HIDE DEF a, effect
  <2>2. effect \in Systems /\ Alike(sys, effect, "socket") /\ effect.active = a /\ effect.service = script.service
    <3>1. PICK w \in BOOLEAN : w = a
      BY <2>1
    <3> DEFINE t == Sock(sys, sys.enabled, w, script.service)
    <3>2. t \in Systems /\ Alike(sys, t, "socket")
      BY <2>7, NewSocket
    <3>3. t.service = script.service
      BY <2>7 DEF Sock, Systems
    <3>4. t.active = w
      BY <2>7, NewSocket
    <3>5. effect = t
      BY <2>1, <3>1, Zenon
    <3> QED BY <3>1, <3>2, <3>3, <3>4, <3>5, Zenon
  <2>3. QueriesExact /\ ~script.failed => effect.active = before.active
    <3>1. ASSUME QueriesExact, ~script.failed
          PROVE  a = before.active
      <4>1. script.service = before.service /\ sys.active = before.active
        BY <1>2, <1>4, <3>1, Zenon DEF SocketInv
      <4>2. before.active \in BOOLEAN
        BY <1>2, <1>4, SystemFields, Zenon
      <4> QED BY <1>2, <1>4, <2>1, <2>6, <4>1, <4>2
    <3> QED BY <2>2, <3>1, Zenon
  <2>4. systemctl(effect, "restore_enabled") /\ "restore_enabled" # "restore_modules"
    BY <1>4, Zenon DEF effect
  <2>5. effect.service => effect.active
    BY <2>2, <2>6, Zenon
  <2> QED BY <1>1, <1>4, <2>2, <2>3, <2>4, <2>5, Zenon
<1>5. ASSUME script.at = "restore_enabled", systemctl([sys EXCEPT !.enabled = script.enabled], "restore_modules")
      PROVE  Inv'
  <2> DEFINE effect == [sys EXCEPT !.enabled = script.enabled]
  <2>1. effect = Sock(sys, script.enabled, sys.active, sys.service)
    BY <1>2, <1>5 DEF Sock, Systems
  <2>2. effect \in Systems /\ Alike(sys, effect, "socket") /\ effect.enabled = script.enabled
        /\ effect.active = sys.active /\ effect.service = sys.service
    <3>1. sys \in Systems /\ script.enabled \in BOOLEAN
      BY <1>2, <1>5, Zenon
    <3>2. sys.active \in BOOLEAN /\ sys.service \in BOOLEAN
      BY <3>1, SystemFields, Zenon
    <3> DEFINE Good(x, e, a, v) ==
                 /\ x \in Systems /\ Alike(sys, x, "socket")
                 /\ x.enabled = e /\ x.active = a /\ x.service = v
    <3>3. \A e, a, v \in BOOLEAN : Good(Sock(sys, e, a, v), e, a, v)
      BY <3>1, NewSocket, Zenon
    <3> HIDE DEF Good
    <3>4. Good(Sock(sys, script.enabled, sys.active, sys.service), script.enabled, sys.active, sys.service)
      BY <3>1, <3>2, <3>3, Zenon
    <3>5. Good(effect, script.enabled, sys.active, sys.service)
      BY <2>1, <3>4, Zenon
    <3> QED BY <3>5, Zenon DEF Good
  <2> HIDE DEF effect
  <2>3. /\ QueriesExact /\ ~script.failed => effect.active = before.active
        /\ QueriesExact => effect.enabled = before.enabled
    BY <1>2, <1>5, <2>2, Zenon DEF SocketInv
  <2>4. systemctl(effect, "restore_modules")
    BY <1>5, Zenon DEF effect
  <2>5. effect.service => effect.active
    BY <1>2, <1>5, <2>2, Zenon
  <2> QED BY <1>1, <1>5, <2>2, <2>3, <2>4, <2>5, Zenon
<1> QED BY <1>3, <1>4, <1>5, Zenon DEF RestoreSocket, At

LEMMA RestoreModulesKept ==
    ASSUME Inv, RestoreModules
    PROVE  Inv'
<1>1. script.at = "restore_modules" /\ script.at \notin Early /\ script.at \notin Forward /\ script.at # "check_link"
      /\ script.at # "idle" /\ script.at # "restore_legacy" /\ UNCHANGED <<backup, before>>
      /\ script.at \notin {"restore_socket", "restore_daemon", "restore_enabled"}
  BY StepNames, Zenon DEF RestoreModules, At
<1>2. Types /\ ServicesWhole /\ DestInv /\ LegacyInv /\ ModuleInv /\ SocketInv
      /\ script \in Scripts /\ sys \in Systems /\ before \in Systems /\ script.files = <<>>
  BY <1>1, Running, Zenon DEF Types, ScriptInv
<1>3. ASSUME script.installed = <<>>, Exit(IF script.failed THEN "incomplete" ELSE "restored"), UNCHANGED sys
      PROVE  Inv'
  <2>1. Types' /\ ServicesWhole'
    BY <1>1, <1>2, <1>3, Zenon DEF Types, ServicesWhole, Exit
  <2>2. CASE script.failed
    BY <1>3, <2>1, <2>2, Stops, Zenon
  <2>3. CASE ~script.failed
    <3>1. script' = Idle /\ report' = "restored"
      BY <1>3, <2>3, Zenon DEF Exit
    <3>2. sys.dest = before.dest
      BY <1>1, <1>2, <2>3, Zenon DEF DestInv, Early
    <3>3. sys.legacy = before.legacy
      <4>1. \A f \in Files : sys.legacy[f] = before.legacy[f]
        BY <1>2, <2>3, OnList, Zenon DEF LegacyInv
      <4>2. sys.legacy \in [Files -> {"clean", "managed", "unmanaged"}]
            /\ before.legacy \in [Files -> {"clean", "managed", "unmanaged"}]
        BY <1>2, SystemFields, Zenon
      <4> QED BY <4>1, <4>2
    <3>4. QueriesExact => sys.modules = before.modules
      <4>1. QueriesExact => \A m \in Mods : sys.modules[m] = before.modules[m]
        BY <1>2, <1>3, <2>3, OnList, Zenon DEF ModuleInv
      <4>2. sys.modules \in [Mods -> Modules \cup {"absent", "new"}]
            /\ before.modules \in [Mods -> Modules \cup {"absent", "new"}]
        BY <1>2, SystemFields, Zenon
      <4> QED BY <4>1, <4>2
    <3>5. QueriesExact => sys.enabled = before.enabled /\ sys.active = before.active
      BY <1>1, <1>2, <2>3, Zenon DEF SocketInv
    <3>6. Restored'
      BY <1>1, <1>3, <3>2, <3>3, <3>4, <3>5, Zenon DEF Restored
    <3>7. "restored" # "prepared"
      OBVIOUS
    <3> QED BY <2>1, <3>1, <3>6, <3>7, Zenon DEF Inv, PreparedAsReported
  <2> QED BY <2>2, <2>3, Zenon
<1>4. ASSUME script.installed # <<>>, UNCHANGED report, NEW known \in module_installed(Latest(script.installed)),
             LET m == Latest(script.installed)
                 left == [script EXCEPT !.installed = Earlier(script.installed)]
             IN  \/ ~known /\ script' = left /\ UNCHANGED sys
                 \/ known /\ script' = left /\ sys' = [sys EXCEPT !.modules[m] = "absent"]
                 \/ known /\ script' = [left EXCEPT !.failed = TRUE] /\ UNCHANGED sys
      PROVE  Inv'
  <2> DEFINE m == Latest(script.installed)
             rest == Earlier(script.installed)
             left == [script EXCEPT !.installed = rest]
  <2>1. script.installed \in ModuleLists
    BY <1>2 DEF Scripts
  <2>2. m \in Mods /\ rest \in ModuleLists /\ ~On(m, rest) /\ \A y : On(y, script.installed) <=> (y = m \/ On(y, rest))
    BY <1>4, <2>1, Popped, Zenon
  <2>3. \/ ~known /\ script' = left /\ sys' = sys
        \/ known /\ script' = left /\ sys' = [sys EXCEPT !.modules[m] = "absent"]
        \/ known /\ script' = [left EXCEPT !.failed = TRUE] /\ sys' = sys
    BY <1>4, Zenon
  <2>4. QueriesExact => (known <=> sys.modules[m] # "absent")
    BY <1>4, Zenon DEF module_installed, Reads, QueriesExact
  <2>5. QueriesExact => before.modules[m] = "absent"
    BY <1>2, <2>2, Zenon DEF ModuleInv
  <2> HIDE DEF m, rest
  <2>6. script' \in Scripts
    <3>1. left \in Scripts
      BY <1>2, <2>2 DEF Scripts
    <3> HIDE DEF left
    <3>2. [left EXCEPT !.failed = TRUE] \in Scripts
      BY <3>1 DEF Scripts
    <3> QED BY <2>3, <3>1, <3>2, Zenon
  <2>7. /\ script'.at = script.at /\ script'.installed = rest /\ script'.next = script.next
        /\ script'.target = script.target /\ script'.files = script.files
        /\ script'.created = script.created /\ script'.touched = script.touched
        /\ script'.enabled = script.enabled /\ script'.active = script.active /\ script'.service = script.service
        /\ script.failed => script'.failed
    BY <1>2, <2>3 DEF Scripts
  <2>8. script' = [left EXCEPT !.failed = TRUE] => script'.failed
    BY <1>2 DEF Scripts
  <2> HIDE DEF left
  <2>9. /\ sys' \in Systems /\ Alike(sys, sys', "modules")
        /\ \A y \in Mods : y # m => sys'.modules[y] = sys.modules[y]
        /\ script'.failed \/ sys'.modules[m] = "absent" \/ (~known /\ sys' = sys)
    <3>1. "absent" \in {"absent", "new"}
      BY Zenon
    <3>2. LET t == [sys EXCEPT !.modules[m] = "absent"]
          IN  /\ t \in Systems /\ Alike(sys, t, "modules") /\ t.modules[m] = "absent"
              /\ \A y \in Mods : y # m => t.modules[y] = sys.modules[y]
      BY <1>2, <2>2, <3>1, NewModule, Zenon
    <3>3. CASE sys' = [sys EXCEPT !.modules[m] = "absent"]
      BY <3>2, <3>3, Zenon
    <3>4. CASE sys' = sys /\ (~known \/ script'.failed)
      <4>1. Alike(sys, sys', "modules")
        BY <3>4, Zenon DEF Alike
      <4> QED BY <1>2, <3>4, <4>1, Zenon
    <3> QED BY <2>3, <2>8, <3>3, <3>4, Zenon
  <2>10. "modules" # "dest" /\ "modules" # "legacy" /\ "modules" # "socket"
    OBVIOUS
  <2>11. Types' /\ ServicesWhole'
    BY <1>1, <1>2, <2>6, <2>9, <2>10, Zenon DEF Types, ServicesWhole, Alike
  <2>12. ModuleInv'
    <3>1. SUFFICES ASSUME QueriesExact, NEW y \in Mods
                   PROVE  IF On(y, rest) THEN before.modules[y] = "absent"
                          ELSE script'.failed \/ sys'.modules[y] = before.modules[y]
      BY <1>1, <2>7, Zenon DEF ModuleInv
    <3>2. CASE y = m
      <4>1. script'.failed \/ sys'.modules[m] = "absent"
        BY <2>4, <2>9, <3>1, Zenon
      <4> QED BY <2>2, <2>5, <3>1, <3>2, <4>1, Zenon
    <3>3. CASE y # m
      <4>1. On(y, rest) <=> On(y, script.installed)
        BY <2>2, <3>3, Zenon
      <4> QED BY <1>2, <2>7, <2>9, <3>1, <3>3, <4>1, Zenon DEF ModuleInv
    <3> QED BY <3>2, <3>3, Zenon
  <2>13. DestInv' /\ LegacyInv' /\ SocketInv'
    BY <1>1, <1>2, <2>7, <2>9, <2>10, DestKept, LegacyKept, SocketKept, Zenon DEF Alike
  <2>14. ScriptInv'
    BY <1>1, <1>2, <2>7, <2>12, <2>13, Zenon DEF ScriptInv
  <2> QED BY <1>2, <1>4, <2>6, <2>11, <2>14, Continues, Zenon
<1> QED BY <1>3, <1>4, Zenon DEF RestoreModules, Latest, Earlier

-----------------------------------------------------------------------------
(* The surroundings.                                                       *)
LEMMA KillKept ==
    ASSUME Inv, Kill
    PROVE  Inv'
<1>1. Types' /\ ServicesWhole'
  BY Zenon DEF Kill, Exit, Inv, Types, ServicesWhole
<1>2. Exit("killed")
  BY Zenon DEF Kill
<1> QED BY <1>1, <1>2, Stops, Zenon

LEMMA ActivateKept ==
    ASSUME Inv, Activate
    PROVE  Inv'
<1>1. sys.active /\ sys' = [sys EXCEPT !.service = TRUE] /\ UNCHANGED <<temp, backup, script, before, report>>
  BY Zenon DEF Activate
<1>2. Types /\ ServicesWhole /\ sys \in Systems
  BY Zenon DEF Inv, Types
<1>3. sys' \in Systems
  BY <1>1, <1>2 DEF Systems
<1>4. sys'.dest = sys.dest /\ sys'.modules = sys.modules /\ sys'.enabled = sys.enabled
      /\ sys'.active = sys.active /\ sys'.legacy = sys.legacy
  BY <1>1, <1>2 DEF Systems
<1>5. Types' /\ ServicesWhole'
  BY <1>1, <1>2, <1>3, <1>4, Zenon DEF Types, ServicesWhole
<1>6. (report' = "restored" => Restored') /\ PreparedAsReported'
  BY <1>1, <1>4, Zenon DEF Inv, Restored, PreparedAsReported
<1>7. script # Idle => ScriptInv'
  <2>1. SUFFICES ASSUME script # Idle PROVE ScriptInv'
    BY Zenon
  <2>2. ScriptInv
    BY <2>1, Zenon DEF Inv
  <2>3. ForwardInv => ForwardInv'
    BY <1>1, <1>4, Zenon DEF ForwardInv
  <2>4. DestInv' /\ LegacyInv' /\ ModuleInv' /\ SocketInv'
    BY <1>1, <1>4, <2>2, Zenon DEF ScriptInv, DestInv, LegacyInv, ModuleInv, SocketInv
  <2> QED BY <1>1, <2>2, <2>3, <2>4, Zenon DEF ScriptInv
<1> QED BY <1>1, <1>5, <1>6, <1>7, Zenon DEF Inv

LEMMA AdministratorKept ==
    ASSUME Inv, AdministratorWrites
    PROVE  Inv'
<1>1. sys.dest = "absent" /\ script.at # "idle" /\ UNCHANGED <<temp, backup, script, report>>
  BY Zenon DEF AdministratorWrites, At
<1>2. Types /\ ServicesWhole /\ ScriptInv /\ DestInv /\ LegacyInv /\ ModuleInv /\ SocketInv
      /\ script \in Scripts /\ sys \in Systems /\ before \in Systems
  BY <1>1, Running, Zenon DEF Types
<1>3. PICK content \in {"template", "custom"} :
        sys' = [sys EXCEPT !.dest = content] /\ before' = [before EXCEPT !.dest = content]
  BY Zenon DEF AdministratorWrites
<1>4. content \in {"absent", "template", "custom"}
  BY <1>3, Zenon
<1>5. /\ sys' \in Systems /\ sys'.dest = content /\ Alike(sys, sys', "dest")
      /\ before' \in Systems /\ before'.dest = content /\ Alike(before, before', "dest")
  BY <1>2, <1>3, <1>4, NewDest, Zenon
<1>6. "dest" # "modules" /\ "dest" # "legacy" /\ "dest" # "socket"
  OBVIOUS
<1>7. Types' /\ ServicesWhole'
  BY <1>1, <1>2, <1>5, <1>6, Zenon DEF Types, ServicesWhole, Alike
<1>8. script.at # "check_link" /\ (script.at \in Early => ~script.created)
      /\ (ForwardInv => script.at \notin {"module", "enable", "migrate", "strip"})
  BY <1>1, <1>2, Zenon DEF DestInv, ForwardInv, Early
<1>9. ForwardInv => ForwardInv'
  BY <1>1, <1>8, Zenon DEF ForwardInv
<1>10. DestInv'
  BY <1>1, <1>5, <1>8, Zenon DEF DestInv, Early
<1>11. LegacyInv' /\ ModuleInv'
  BY <1>1, <1>2, <1>5, <1>6, LegacyKept, ModuleKept, Zenon DEF Alike
<1>12. SocketInv'
  BY <1>1, <1>2, <1>5, <1>6, SocketKept, Zenon DEF Alike
<1>13. ScriptInv'
  BY <1>1, <1>2, <1>9, <1>10, <1>11, <1>12, Zenon DEF ScriptInv
<1> QED BY <1>1, <1>2, <1>7, <1>13, Continues, Zenon

-----------------------------------------------------------------------------
LEMMA InitInv ==
    ASSUME SetupInit
    PROVE  Inv
<1>1. sys \in [dest : {"absent", "template", "custom"},
               modules : [{"kfaceauth", "kfaceauth_sddm"} -> Modules],
               enabled : BOOLEAN, active : BOOLEAN, service : {FALSE},
               legacy : [LegacyFiles -> {"clean", "managed", "unmanaged"}]]
      /\ backup = [f \in LegacyFiles |-> "none"] /\ script = Idle /\ before = sys /\ report = "none"
  BY Zenon DEF SetupInit
<1>2. sys \in Systems /\ ~sys.service
  BY <1>1 DEF Systems, Mods, Files
<1>3. backup \in [Files -> {"none", "clean", "managed", "unmanaged"}]
  BY <1>1 DEF Files
<1>4. Types
  BY <1>1, <1>2, <1>3, Zenon DEF Types
<1>5. ServicesWhole
  BY <1>1, Zenon DEF ServicesWhole
<1>6. report \notin {"prepared", "restored"}
  BY <1>1, Zenon
<1> QED BY <1>1, <1>4, <1>5, <1>6, Zenon DEF Inv, PreparedAsReported

LEMMA NextInv ==
    ASSUME Inv, [SetupNext]_setupVars
    PROVE  Inv'
<1>1. ASSUME NEW target \in Targets, prepare_target(target) PROVE Inv'
  BY <1>1, PrepareKept, Zenon
<1>2. CASE CheckService
  BY <1>2, CheckServiceKept, Zenon
<1>3. CASE WriteTemp
  BY <1>3, WriteTempKept, Zenon
<1>4. CASE Link
  BY <1>4, LinkKept, Zenon
<1>5. CASE CheckLink
  BY <1>5, CheckLinkKept, Zenon
<1>6. CASE InstallModule
  BY <1>6, InstallModuleKept, Zenon
<1>7. CASE Labelled
  BY <1>7, LabelledKept, Zenon
<1>8. CASE EnableSocket
  BY <1>8, EnableSocketKept, Zenon
<1>9. CASE BackUp
  BY <1>9, BackUpKept, Zenon
<1>10. CASE Strip
  BY <1>10, StripKept, Zenon
<1>11. CASE Prepared
  BY <1>11, PreparedKept, Zenon
<1>12. CASE RestoreLegacy
  BY <1>12, RestoreLegacyKept, Zenon
<1>13. CASE RestoreService
  BY <1>13, RestoreServiceKept, Zenon
<1>14. CASE RestoreSocket
  BY <1>14, RestoreSocketKept, Zenon
<1>15. CASE RestoreModules
  BY <1>15, RestoreModulesKept, Zenon
<1>16. CASE Kill
  BY <1>16, KillKept, Zenon
<1>17. CASE Activate
  BY <1>17, ActivateKept, Zenon
<1>18. CASE AdministratorWrites
  BY <1>18, AdministratorKept, Zenon
<1>19. CASE UNCHANGED setupVars
  <2>1. UNCHANGED <<sys, temp, backup, script, before, report>>
    BY <1>19, Zenon DEF setupVars
  <2>2. Types' /\ ServicesWhole' /\ PreparedAsReported' /\ (Restored => Restored')
    BY <2>1, Zenon DEF Inv, Types, ServicesWhole, PreparedAsReported, Restored
  <2>3. ScriptInv => ScriptInv'
    <3>1. ForwardInv => ForwardInv'
      BY <2>1, Zenon DEF ForwardInv
    <3>2. (DestInv => DestInv') /\ (SocketInv => SocketInv')
      BY <2>1, Zenon DEF DestInv, SocketInv
    <3>3. (LegacyInv => LegacyInv') /\ (ModuleInv => ModuleInv')
      BY <2>1, Zenon DEF LegacyInv, ModuleInv
    <3> QED BY <2>1, <3>1, <3>2, <3>3, Zenon DEF ScriptInv
  <2> QED BY <2>1, <2>2, <2>3, Zenon DEF Inv
<1> QED BY <1>1, <1>2, <1>3, <1>4, <1>5, <1>6, <1>7, <1>8, <1>9, <1>10, <1>11, <1>12, <1>13, <1>14,
           <1>15, <1>16, <1>17, <1>18, <1>19, Zenon DEF SetupNext

(* The inductive invariant, for any targets, any modules found at the      *)
(* start and any number of calls, also when the queries fail.              *)
THEOREM SetupInvariant == SetupSpec => []Inv
<1>1. SetupInit => Inv
  BY InitInv, Zenon
<1>2. Inv /\ [SetupNext]_setupVars => Inv'
  BY NextInv, Zenon
<1> QED BY <1>1, <1>2, PTL DEF SetupSpec

(* "state=prepared" is true: the dedicated service is the packaged one,    *)
(* the socket is enabled and listens, and no standard service has the      *)
(* managed rule, also when queries of the script failed on the way.        *)
THEOREM PreparedReported == SetupSpec => []PreparedAsReported
<1>1. Inv => PreparedAsReported
  BY Zenon DEF Inv
<1> QED BY <1>1, SetupInvariant, PTL

(* Both of the last words of the script are true when semodule -l and      *)
(* systemctl is-... answer and the modules found are the packaged ones.    *)
THEOREM SetupReported ==
    ASSUME QueriesExact
    PROVE  SetupSpec => []SetupAsReported
<1>1. Inv => SetupAsReported
  BY Zenon DEF Inv, Restored, SetupAsReported, RestoredAsReported
<1> QED BY <1>1, SetupInvariant, PTL

-----------------------------------------------------------------------------
(* What an administrator wrote.                                            *)
LEMMA SameServices ==
    ASSUME sys'.dest = sys.dest, sys'.legacy = sys.legacy
    PROVE  AdministratorsKept
  BY Zenon DEF AdministratorsKept

LEMMA DestWritten ==
    ASSUME sys \in Systems, NEW d, sys' = [sys EXCEPT !.dest = d], sys.dest # "custom"
    PROVE  AdministratorsKept
<1>1. sys'.legacy = sys.legacy
  BY DEF Systems
<1> QED BY <1>1, Zenon DEF AdministratorsKept

LEMMA LegacyWritten ==
    ASSUME sys \in Systems, NEW f \in Files, NEW v, sys' = [sys EXCEPT !.legacy[f] = v], sys.legacy[f] # "unmanaged"
    PROVE  AdministratorsKept
<1>1. sys'.dest = sys.dest
  BY DEF Systems
<1>2. sys'.legacy = [sys.legacy EXCEPT ![f] = v] /\ sys.legacy \in [Files -> {"clean", "managed", "unmanaged"}]
  BY DEF Systems
<1>3. \A y \in Files : sys.legacy[y] = "unmanaged" => sys'.legacy[y] = "unmanaged"
  BY <1>2
<1> QED BY <1>1, <1>3, Zenon DEF AdministratorsKept, Files

LEMMA UnitsWritten ==
    ASSUME sys \in Systems,
           \/ sys' = sys
           \/ \E m : sys' = [sys EXCEPT !.modules[m] = "new"] \/ sys' = [sys EXCEPT !.modules[m] = "absent"]
           \/ \E e, a : sys' = [sys EXCEPT !.enabled = e, !.active = a]
           \/ \E e : sys' = [sys EXCEPT !.enabled = e] \/ sys' = [sys EXCEPT !.service = e] \/ sys' = [sys EXCEPT !.active = e]
           \/ \E e, a : sys' = [sys EXCEPT !.active = a, !.service = e]
    PROVE  AdministratorsKept
<1>1. sys'.dest = sys.dest /\ sys'.legacy = sys.legacy
  <2>1. CASE sys' = sys
    BY <2>1, Zenon
  <2>2. ASSUME NEW m, sys' = [sys EXCEPT !.modules[m] = "new"] \/ sys' = [sys EXCEPT !.modules[m] = "absent"]
        PROVE  sys'.dest = sys.dest /\ sys'.legacy = sys.legacy
    BY <2>2 DEF Systems
  <2>3. ASSUME NEW e, NEW a, sys' = [sys EXCEPT !.enabled = e, !.active = a]
        PROVE  sys'.dest = sys.dest /\ sys'.legacy = sys.legacy
    BY <2>3 DEF Systems
  <2>4. ASSUME NEW e, sys' = [sys EXCEPT !.enabled = e] \/ sys' = [sys EXCEPT !.service = e] \/ sys' = [sys EXCEPT !.active = e]
        PROVE  sys'.dest = sys.dest /\ sys'.legacy = sys.legacy
    BY <2>4 DEF Systems
  <2>5. ASSUME NEW e, NEW a, sys' = [sys EXCEPT !.active = a, !.service = e]
        PROVE  sys'.dest = sys.dest /\ sys'.legacy = sys.legacy
    BY <2>5 DEF Systems
  <2> QED BY <2>1, <2>2, <2>3, <2>4, <2>5, Zenon
<1> QED BY <1>1, SameServices, Zenon

LEMMA StepKeepsAdministrators ==
    ASSUME Inv, SetupNext
    PROVE  AdministratorsKept
<1>1. sys \in Systems
  BY Zenon DEF Inv, Types
<1>2. "absent" # "custom" /\ "template" # "custom" /\ "managed" # "unmanaged" /\ "clean" # "unmanaged"
  OBVIOUS
<1>3. ASSUME (\E target \in Targets : prepare_target(target)) \/ CheckService \/ WriteTemp \/ Labelled \/ BackUp
             \/ Prepared \/ Kill
      PROVE  AdministratorsKept
  <2>1. sys' = sys
    BY <1>3, Zenon DEF prepare_target, CheckService, WriteTemp, Labelled, BackUp, Prepared, Kill
  <2> QED BY <2>1, SameServices, Zenon
<1>4. CASE Link
  <2>1. sys' = sys \/ (sys.dest = "absent" /\ sys' = [sys EXCEPT !.dest = Published])
    BY <1>4, Zenon DEF Link
  <2> QED BY <1>1, <1>2, <2>1, SameServices, DestWritten, Zenon
<1>5. CASE CheckLink
  <2>1. script.at = "check_link" /\ script.at # "idle" /\ (sys' = sys \/ sys' = [sys EXCEPT !.dest = "absent"])
    BY <1>5, Zenon DEF CheckLink, At
  <2>2. sys.dest = "template"
    BY <2>1, Running, Zenon DEF DestInv
  <2> QED BY <1>1, <1>2, <2>1, <2>2, SameServices, DestWritten, Zenon
<1>6. CASE InstallModule
  <2>1. sys' = sys \/ \E m : sys' = [sys EXCEPT !.modules[m] = "new"]
    BY <1>6, Zenon DEF InstallModule
  <2> QED BY <1>1, <2>1, UnitsWritten, Zenon
<1>7. CASE EnableSocket
  <2>1. \E e, a : sys' = [sys EXCEPT !.enabled = e, !.active = a]
    BY <1>7, Zenon DEF EnableSocket
  <2> QED BY <1>1, <2>1, UnitsWritten, Zenon
<1>8. CASE Strip
  <2> DEFINE f == Legacy[script.next]
  <2>1. script.at = "strip" /\ script.at # "idle" /\ script.at \in Forward
        /\ (sys' = sys \/ sys' = [sys EXCEPT !.legacy[f] = "clean"])
    BY <1>8, StepNames, Zenon DEF Strip, At
  <2>2. ForwardInv /\ LegacyInv
    BY <2>1, Running, Zenon
  <2>3. \/ script.next = 1 /\ script.files = <<"sddm">>
        \/ script.next = 2 /\ script.files \in {<<"kde">>, <<"sddm", "kde">>}
    BY <2>1, <2>2, Zenon DEF ForwardInv
  <2>4. (script.next = 1 => f = "sddm") /\ (script.next = 2 => f = "kde")
    BY DEF Legacy
  <2> HIDE DEF f
  <2>5. f \in Files /\ On(f, script.files)
    BY <2>3, <2>4, OnList, Zenon DEF Files, LegacyFiles
  <2>6. sys.legacy[f] # "unmanaged"
    BY <1>2, <2>2, <2>5, Zenon DEF LegacyInv
  <2>7. CASE sys' = sys
    BY <2>7, SameServices, Zenon
  <2>8. CASE sys' = [sys EXCEPT !.legacy[f] = "clean"]
    BY <1>1, <2>5, <2>6, <2>8, LegacyWritten, Zenon
  <2> QED BY <2>1, <2>7, <2>8, Zenon
<1>9. CASE RestoreLegacy
  <2> DEFINE f == Latest(script.files)
  <2>1. script.at = "restore_legacy" /\ script.at # "idle"
        /\ (sys' = sys \/ (script.files # <<>> /\ sys' = [sys EXCEPT !.legacy[f] = backup[f]]))
    BY <1>9, Zenon DEF RestoreLegacy, At, Latest
  <2>2. LegacyInv /\ script \in Scripts
    BY <2>1, Running, Zenon
  <2>3. script.files \in FileLists
    BY <2>2 DEF Scripts
  <2>4. script.files # <<>> => f \in Files /\ On(f, script.files)
    BY <2>3, Popped, Zenon
  <2> HIDE DEF f
  <2>5. script.files # <<>> => sys.legacy[f] # "unmanaged"
    BY <1>2, <2>2, <2>4, Zenon DEF LegacyInv
  <2>6. CASE sys' = sys
    BY <2>6, SameServices, Zenon
  <2>7. CASE script.files # <<>> /\ sys' = [sys EXCEPT !.legacy[f] = backup[f]]
    BY <1>1, <2>4, <2>5, <2>7, LegacyWritten, Zenon
  <2> QED BY <2>1, <2>6, <2>7, Zenon
<1>10. CASE RestoreService
  <2>1. script.at = "restore_service" /\ script.at # "idle"
        /\ (sys' = sys \/ (script.created /\ sys' = [sys EXCEPT !.dest = "absent"]))
    BY <1>10, Zenon DEF RestoreService, At
  <2>2. script.created => sys.dest = "template"
    BY <2>1, Running, Zenon DEF DestInv
  <2> QED BY <1>1, <1>2, <2>1, <2>2, SameServices, DestWritten, Zenon
<1>11. CASE RestoreSocket
  <2>1. \/ sys' = sys \/ sys' = socket(script.active) \/ sys' = service(script.service)
        \/ sys' = [sys EXCEPT !.enabled = script.enabled]
    BY <1>11, Zenon DEF RestoreSocket, systemctl
  <2>2. \/ sys' = sys \/ sys' = [sys EXCEPT !.active = TRUE] \/ sys' = [sys EXCEPT !.active = FALSE, !.service = FALSE]
        \/ sys' = [sys EXCEPT !.active = TRUE, !.service = TRUE] \/ sys' = [sys EXCEPT !.service = FALSE]
        \/ sys' = [sys EXCEPT !.enabled = script.enabled]
    BY <2>1, Zenon DEF socket, service
  <2> QED BY <1>1, <2>2, UnitsWritten, Zenon
<1>12. CASE RestoreModules
  <2>1. sys' = sys \/ \E m : sys' = [sys EXCEPT !.modules[m] = "absent"]
    BY <1>12, Zenon DEF RestoreModules
  <2> QED BY <1>1, <2>1, UnitsWritten, Zenon
<1>13. CASE Activate
  <2>1. sys' = [sys EXCEPT !.service = TRUE]
    BY <1>13, Zenon DEF Activate
  <2> QED BY <1>1, <2>1, UnitsWritten, Zenon
<1>14. CASE AdministratorWrites
  <2>1. sys.dest = "absent" /\ \E content : sys' = [sys EXCEPT !.dest = content]
    BY <1>14, Zenon DEF AdministratorWrites
  <2> QED BY <1>1, <1>2, <2>1, DestWritten, Zenon
<1> QED BY <1>3, <1>4, <1>5, <1>6, <1>7, <1>8, <1>9, <1>10, <1>11, <1>12, <1>13, <1>14, Zenon DEF SetupNext

(* The script never changes what an administrator wrote, neither a         *)
(* dedicated service of their own (ln instead of mv, removal only of what  *)
(* the script created) nor a rule without the markers; and at every step   *)
(* the standard services are whole, wherever the script is killed.         *)
THEOREM SetupOthersKept == SetupSpec => [][ServicesWhole' /\ AdministratorsKept]_setupVars
<1>1. Inv /\ Inv' /\ [SetupNext]_setupVars => [ServicesWhole' /\ AdministratorsKept]_setupVars
  <2>1. Inv' => ServicesWhole'
    BY Zenon DEF Inv
  <2>2. Inv /\ SetupNext => AdministratorsKept
    BY StepKeepsAdministrators, Zenon
  <2> QED BY <2>1, <2>2, Zenon
<1> QED BY <1>1, SetupInvariant, PTL DEF SetupSpec
=============================================================================
