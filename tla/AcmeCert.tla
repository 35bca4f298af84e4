------------------------------- MODULE AcmeCert -------------------------------
(***************************************************************************)
(* Provisioning a certificate over ACME, crates/ndn-acme: the TLS          *)
(* listeners resolve their certificate source when they start              *)
(* (cert_source.rs), the renewal loop looks at the cache every day         *)
(* (renewal.rs); both read and write the two files of the cache            *)
(* (cache.rs), and both may run an order (client.rs) that proves the       *)
(* domain by a TXT record (dns.rs).  The process may crash anywhere; files *)
(* and records survive.                                                    *)
(*                                                                         *)
(* The CA and the DNS are outside this repository: the CA validates an     *)
(* order by looking for its value among the records of the one name all    *)
(* orders for the domain use.                                              *)
(***************************************************************************)
EXTENDS FiniteSets, Integers, Sequences, SequencesExt

CONSTANTS
    Resolvers,  \* listeners that resolve the same source
    Renewers,   \* renewal loops
    Deployments,\* the sets of those that may run together
    Lifetime,   \* of a certificate, in days
    Threshold,  \* RENEW_THRESHOLD_DAYS
    MaxPolls,   \* 30 in the code
    MaxDay,     \* bounds of the model: days that pass,
    MaxOrders,  \* orders made,
    MaxFaults,  \* requests that fail or are answered with an error, and crashes,
    SharedFaults\* and as many of them at most when several actors run

Actors == Resolvers \cup Renewers

ASSUME AcmeAssumption ==
    /\ Lifetime \in Nat /\ Threshold \in Nat /\ Threshold < Lifetime
    /\ MaxPolls \in Nat \ {0}
    /\ {MaxDay, MaxOrders, MaxFaults, SharedFaults} \subseteq Nat
    /\ Resolvers \cap Renewers = {} /\ IsFiniteSet(Actors)
    /\ Deployments \subseteq SUBSET Actors

None == 0       \* no order, no file, no record
Torn == -1      \* a file truncated and not yet written

VARIABLES
    task,       \* actor -> where it is, and the locals of the call it is in
    served,     \* resolver -> the cert and the key it resolved
    certFile,   \* the cert in the cache: the order it came from, None or Torn
    keyFile,    \* the key in the cache
    records,    \* the TXT records of the name, oldest first
    status,     \* order -> "pending", "ready", "invalid"
    issued,     \* order -> the day its certificate was issued
    day, faults,
    misread     \* history: error bodies upsert_txt took for "no record"

files == <<certFile, keyFile>>
ca == <<status, issued>>
limits == <<day, faults, misread>>
vars == <<task, served, files, records, ca, limits>>

\* `seen` is the certificate read, `order` the order (which also names its key
\* and its TXT value), `found` what find_record returned, `placed` whether it
\* placed a record, `since` the day the sleep began.
At(l) == [pc |-> l, seen |-> None, order |-> None, polls |-> 0, found |-> None,
          placed |-> FALSE, since |-> day]
Start(a) == At(IF a \in Renewers THEN "sleep" ELSE "load")
Off(a) == task[a].pc = "off"
Nothing == [cert |-> None, key |-> None]

Init ==
    /\ day = 0 /\ faults = 0 /\ misread = 0
    /\ \E running \in Deployments :
        task = [a \in Actors |-> IF a \in running THEN Start(a) ELSE At("off")]
    /\ served = [a \in Resolvers |-> Nothing]
    /\ certFile = None /\ keyFile = None
    /\ records = <<>> /\ status = <<>> /\ issued = <<>>

Goto(a, l) == task' = [task EXCEPT ![a].pc = l]

\* An error ends the listener; the renewal loop logs it and sleeps again.
GiveUp(a) == task' = [task EXCEPT ![a] = At(IF a \in Renewers THEN "sleep" ELSE "failed")]

\* The listener goes on with what it resolved; the loop sleeps again.
Resolve(a, cert, key) ==
    /\ task' = [task EXCEPT ![a] = At(IF a \in Renewers THEN "sleep" ELSE "serving")]
    /\ served' = IF a \in Renewers THEN served
                 ELSE [served EXCEPT ![a] = [cert |-> cert, key |-> key]]

Running == {a \in Actors : ~Off(a)}
FaultHappens ==
    /\ faults < MaxFaults /\ (Cardinality(Running) > 1 => faults < SharedFaults)
    /\ faults' = faults + 1

\* A request to the CA or the DNS fails, in each of the states that make one.
Requests == {"order", "find", "upsert", "ready", "poll"}
Fault(a) ==
    /\ task[a].pc \in Requests
    /\ FaultHappens
    /\ GiveUp(a)
    /\ UNCHANGED <<served, files, records, ca, day, misread>>

(***************************************************************************)
(* The cache and the check of what is in it.                               *)
(***************************************************************************)
DaysLeft(c) == issued[c] + Lifetime - day

\* Mutant of NeedsRenewal: what cannot be parsed is taken for good.
NeedsRenewalIfParsed(c) == c = None \/ (c # Torn /\ DaysLeft(c) <= Threshold)
NeedsRenewal(c) == c \in {None, Torn} \/ DaysLeft(c) <= Threshold

\* CHECK_INTERVAL has passed; it does so again after the last day modelled.
WakeUp(a) ==
    /\ task[a].pc = "sleep" /\ (day > task[a].since \/ day = MaxDay)
    /\ Goto(a, "load")
    /\ UNCHANGED <<served, files, records, ca, limits>>

\* CertCache::load reads one file, then the other; without either there is
\* nothing cached.
LoadCert(a) ==
    /\ task[a].pc = "load"
    /\ task' = [task EXCEPT ![a].pc = "loadKey", ![a].seen = certFile]
    /\ UNCHANGED <<served, files, records, ca, limits>>

LoadKey(a) ==
    /\ task[a].pc = "loadKey"
    /\ IF keyFile = None \/ NeedsRenewal(task[a].seen)
       THEN task' = [task EXCEPT ![a] = At("order")] /\ UNCHANGED served
       ELSE Resolve(a, task[a].seen, keyFile)
    /\ UNCHANGED <<files, records, ca, limits>>

(***************************************************************************)
(* AcmeClient::new and AcmeClient::issue.                                  *)
(***************************************************************************)
Order(a) == task[a].order

\* The CA may still hold the domain for proven: then there is nothing to place.
NewOrder(a) ==
    /\ task[a].pc = "order" /\ Len(status) < MaxOrders
    /\ issued' = Append(issued, 0)
    /\ \E proven \in BOOLEAN :
        /\ status' = Append(status, IF proven THEN "ready" ELSE "pending")
        /\ task' = [task EXCEPT ![a].pc = IF proven THEN "poll" ELSE "find",
                                ![a].order = Len(status) + 1]
    /\ UNCHANGED <<served, files, records, limits>>

\* Both upsert_txt and delete_txt look for a record first.
AfterFind(a) == IF task[a].pc = "find" THEN "upsert" ELSE "delete"

Lookup(a, found) == task' = [task EXCEPT ![a].pc = AfterFind(a), ![a].found = found]

\* find_record takes the first record of the name, whatever its value; it does
\* not look at the HTTP status, and the body of an error has no record in it.
FindRecord(a) ==
    /\ task[a].pc \in {"find", "cleanup"}
    /\ \/ /\ Lookup(a, IF records = <<>> THEN None ELSE Head(records).id)
          /\ UNCHANGED <<faults, misread>>
       \/ /\ FaultHappens
          /\ Lookup(a, None)
          /\ misread' = IF task[a].pc = "find" THEN misread + 1 ELSE misread
    /\ UNCHANGED <<served, files, records, ca, day>>

Record(n) == [id |-> n, value |-> n]

Placed(a) == task' = [task EXCEPT ![a].pc = "ready", ![a].placed = TRUE]

\* Mutant of Upsert: the record that is there is left as it is.
UpsertKeeping(a) ==
    /\ task[a].pc = "upsert"
    /\ records' = IF task[a].found # None THEN records ELSE Append(records, Record(Order(a)))
    /\ Placed(a)
    /\ UNCHANGED <<served, files, ca, limits>>

\* POST if there was no record; otherwise PUT to the one found, an error if it
\* is gone by now.
Upsert(a) ==
    /\ task[a].pc = "upsert"
    /\ LET id == task[a].found
       IN  \/ /\ id = None
              /\ records' = Append(records, Record(Order(a)))
              /\ Placed(a)
           \/ \E i \in DOMAIN records :
              /\ records[i].id = id
              /\ records' = [records EXCEPT ![i].value = Order(a)]
              /\ Placed(a)
           \/ /\ id # None /\ \A i \in DOMAIN records : records[i].id # id
              /\ GiveUp(a) /\ UNCHANGED records
    /\ UNCHANGED <<served, files, ca, limits>>

SetChallengeReady(a) ==
    /\ task[a].pc = "ready"
    /\ Goto(a, "poll")
    /\ UNCHANGED <<served, files, records, ca, limits>>

\* The CA looks the record up.
Validate(a) ==
    /\ task[a].pc = "poll" /\ status[Order(a)] = "pending"
    /\ status' = [status EXCEPT ![Order(a)] =
                    IF \E i \in DOMAIN records : records[i].value = Order(a)
                    THEN "ready" ELSE "invalid"]
    /\ UNCHANGED <<task, served, files, records, issued, limits>>

\* refresh(): a pending order is polled again, MaxPolls times at most.
PollAgain(a) ==
    /\ task[a].pc = "poll" /\ status[Order(a)] = "pending"
    /\ task[a].polls < MaxPolls
    /\ task' = [task EXCEPT ![a].polls = @ + 1]
    /\ UNCHANGED <<served, files, records, ca, limits>>

\* An order still pending after that is finalized all the same, which the CA
\* refuses; an invalid one is an error.
PollFails(a) ==
    /\ task[a].pc = "poll"
    /\ \/ status[Order(a)] = "invalid" /\ UNCHANGED faults
       \/ /\ status[Order(a)] = "pending" /\ task[a].polls = MaxPolls
          /\ FaultHappens
    /\ GiveUp(a)
    /\ UNCHANGED <<served, files, records, ca, day, misread>>

\* A ready order is finalized and its certificate fetched.
Finalize(a) ==
    /\ task[a].pc = "poll" /\ status[Order(a)] = "ready"
    /\ issued' = [issued EXCEPT ![Order(a)] = day]
    /\ Goto(a, IF task[a].placed THEN "cleanup" ELSE "store")
    /\ UNCHANGED <<served, files, records, status, limits>>

\* delete_txt removes the record found, does nothing without one, and its errors
\* (also those of its lookup) are only logged.
Cleanup(a) ==
    /\ task[a].pc = "delete"
    /\ LET Found(i) == records[i].id = task[a].found
       IN  \/ /\ \E i \in DOMAIN records : Found(i) /\ records' = RemoveAt(records, i)
              /\ UNCHANGED faults
           \/ /\ \A i \in DOMAIN records : ~Found(i)
              /\ UNCHANGED <<records, faults>>
           \/ FaultHappens /\ UNCHANGED records
    /\ Goto(a, "store")
    /\ UNCHANGED <<served, files, ca, day, misread>>

(***************************************************************************)
(* CertCache::store: two files, each truncated and then written.           *)
(***************************************************************************)
Write(a, from, to) ==
    /\ task[a].pc = from
    /\ Goto(a, to)
    /\ UNCHANGED <<served, records, ca, limits>>

TruncateCert(a) == Write(a, "store", "writeCert") /\ certFile' = Torn /\ UNCHANGED keyFile
WriteCert(a) == Write(a, "writeCert", "storeKey") /\ certFile' = Order(a) /\ UNCHANGED keyFile
TruncateKey(a) == Write(a, "storeKey", "writeKey") /\ keyFile' = Torn /\ UNCHANGED certFile

WriteKey(a) == Write(a, "writeKey", "stored") /\ keyFile' = Order(a) /\ UNCHANGED certFile

\* The listener goes on with the material of the order itself.
Stored(a) ==
    /\ task[a].pc = "stored"
    /\ Resolve(a, Order(a), Order(a))
    /\ UNCHANGED <<files, records, ca, limits>>

(***************************************************************************)
(* The environment.                                                        *)
(***************************************************************************)
\* Calls take minutes, so a day passes when none is under way.
NextDay ==
    /\ \A a \in Actors : task[a].pc \in {"sleep", "serving", "failed", "off"}
    /\ day < MaxDay /\ day' = day + 1
    /\ UNCHANGED <<task, served, files, records, ca, faults, misread>>

\* The process dies and is started again.
Crash ==
    /\ FaultHappens
    /\ task' = [a \in Actors |-> IF Off(a) THEN task[a] ELSE Start(a)]
    /\ served' = [a \in Resolvers |-> Nothing]
    /\ UNCHANGED <<files, records, ca, day, misread>>

Step(a) ==
    \/ WakeUp(a) \/ LoadCert(a) \/ LoadKey(a)
    \/ NewOrder(a) \/ FindRecord(a) \/ Upsert(a) \/ SetChallengeReady(a)
    \/ PollAgain(a) \/ PollFails(a) \/ Finalize(a) \/ Cleanup(a)
    \/ TruncateCert(a) \/ WriteCert(a) \/ TruncateKey(a) \/ WriteKey(a) \/ Stored(a)

Next ==
    \/ \E a \in Actors : Step(a) \/ Fault(a) \/ Validate(a)
    \/ NextDay \/ Crash

Spec == Init /\ [][Next]_vars

\* tokio runs the tasks, the days pass, and the CA validates what it is asked to.
FairSpec ==
    /\ Spec
    /\ WF_vars(NextDay)
    /\ \A a \in Actors : WF_vars(Step(a)) /\ WF_vars(Validate(a))

(***************************************************************************)
(* Properties.                                                             *)
(***************************************************************************)
Orders == DOMAIN status
Labels == Requests \cup {"sleep", "load", "loadKey", "cleanup", "delete", "store",
                         "writeCert", "storeKey", "writeKey", "stored", "serving", "failed", "off"}

\* Types, and the files and records only name orders that were made.
TypeOK ==
    /\ task \in [Actors -> [pc : Labels, seen : {None, Torn} \cup Orders,
                            order : {None} \cup Orders, polls : 0 .. MaxPolls,
                            found : {None} \cup Orders, placed : BOOLEAN,
                            since : 0 .. MaxDay]]
    /\ served \in [Resolvers -> [cert : {None} \cup Orders,
                                 key : {None, Torn} \cup Orders]]
    /\ {certFile, keyFile} \subseteq {None, Torn} \cup Orders
    /\ \A i \in DOMAIN records : records[i] \in [id : Orders, value : Orders]
    /\ Len(status) <= MaxOrders
    /\ status \in [Orders -> {"pending", "ready", "invalid"}]
    /\ issued \in [Orders -> 0 .. MaxDay]
    /\ day \in 0 .. MaxDay /\ faults \in 0 .. MaxFaults /\ misread \in Nat

\* However the files are torn, the other listener is writing them, orders fail
\* and the process crashes, what a listener starts with is the certificate of a
\* finished order and not about to expire when it was read or fetched.
ResolvedIsFresh ==
    \A a \in Resolvers :
        task[a].pc = "serving" =>
            LET c == served[a].cert
            IN  /\ c \in Orders /\ status[c] = "ready"
                /\ issued[c] + Lifetime - task[a].since > Threshold

\* Records that failed orders, failed clean-ups and crashes leave behind do not
\* accumulate: there are never more than actors that may run an order at the same
\* time and lookups whose error upsert_txt took for "no record".  Each of those
\* may leave one more for good, also when one actor runs alone.
RecordsBounded == Len(records) <= Cardinality(Running) + misread

\* An order that runs alone is never refused for want of its record, whatever
\* earlier ones left at the name.
AloneIsValidated ==
    Cardinality(Running) = 1 => \A n \in Orders : status[n] # "invalid"

\* The TXT name all orders share: what earlier orders left there piles up only
\* by misread lookups (find_record), and never fails a lone order (upsert_txt
\* overwrites the first record it finds, or adds one).
SharedName == TypeOK /\ RecordsBounded /\ AloneIsValidated

\* As long as requests are answered in the end, a renewal loop on its own leaves
\* a whole certificate that is not about to expire in the cache.  It looks at the
\* certificate only: a key that was torn, or is of another order, is written
\* again when the certificate beside it is due and nothing fails any more, and no
\* sooner is promised.
CacheIsRenewed ==
    Running = Renewers =>
        /\ <>[](certFile \in Orders /\ ~NeedsRenewal(certFile))
        /\ (keyFile # certFile /\ NeedsRenewal(certFile) /\ faults = MaxFaults)
              ~> keyFile = certFile

\* cert_source.rs:18: the private key is the one of the leaf certificate.
KeyBelongsToCert ==
    \A a \in Resolvers : task[a].pc = "serving" => served[a].key = served[a].cert
===============================================================================
