------------------------------ MODULE Notifier -------------------------------
(***************************************************************************)
(* internal/notifier: a Notifier remembers what it sent, for the dedupTTL, *)
(* and counts what each channel got in the current minute.  What is sent   *)
(* is told apart by its title, which holds the number of violations, and   *)
(* by the resource; here that is a key.                                    *)
(***************************************************************************)
EXTENDS Integers, FiniteSets

(* Not the order of the controller's severityOrder.                        *)
urgency == [critical |-> 5, high |-> 4, medium |-> 3, low |-> 2, info |-> 1]
meetsMinSeverity(actual, minimum) == urgency[actual] >= urgency[minimum]

(* A limit of zero is none; the window has begun at most a minute ago.     *)
allow(limiter) == ~(limiter.limit > 0 /\ limiter.count >= limiter.limit)

(* configs: the minimal severity of each channel.                          *)
New(configs) ==
  [configs |-> configs, seen |-> {},
   limits |-> [ch \in DOMAIN configs |-> [limit |-> 0, count |-> 0]]]

isDuplicate(n, key) == key \in n.seen

(* The channels that Send posts to.  A failure is an error of Send, and    *)
(* not repeated: the key counts as seen from the start.                    *)
Recipients(n, notif) ==
  IF isDuplicate(n, notif.key) THEN {}
  ELSE {ch \in DOMAIN n.configs :
          /\ meetsMinSeverity(notif.severity, n.configs[ch])
          /\ allow(n.limits[ch])}
=============================================================================
