-------------------------- MODULE SubnetAccounting --------------------------
(***************************************************************************)
(* What the reservations of the subnet provider are worth.  Two history    *)
(* variables follow SubnetProvider's steps:                                *)
(*                                                                         *)
(*   counted    the calls whose reservation was deducted since the last    *)
(*              refresh of its subnet and is not released yet              *)
(*   disturbed  the subnets on which a reservation older than the last     *)
(*              refresh was released after it                              *)
(*                                                                         *)
(* The provider keeps no generation with a reservation, so a release cannot*)
(* tell whether the refresh already forgot it: it adds its addresses to a  *)
(* count they were never taken from.                                       *)
(***************************************************************************)
EXTENDS SubnetProvider

VARIABLES counted, disturbed

history == <<counted, disturbed>>

HInit == Init /\ counted = {} /\ disturbed = {}

HListRefresh(k) ==
  /\ ListRefresh(k)
  /\ counted' = {c \in counted : held[c].subnet \notin Matching(k)}
  /\ disturbed' = disturbed \ Matching(k)

HSelectForLaunch(c, r) ==
  /\ SelectForLaunch(c, r)
  /\ counted' = IF held'[c].ips > 0 THEN counted \cup {c} ELSE counted
  /\ UNCHANGED disturbed

HReleaseInflightIPs(c) ==
  /\ ReleaseInflightIPs(c)
  /\ counted' = counted \ {c}
  /\ disturbed' = IF c \in counted THEN disturbed ELSE disturbed \cup {held[c].subnet}

HNext ==
  \/ \E k \in Key : HListRefresh(k) \/ (CacheExpires(k) /\ UNCHANGED history)
  \/ \E c \in Call, r \in Requests : HSelectForLaunch(c, r)
  \/ \E c \in Call : HReleaseInflightIPs(c)
  \/ \E s \in Subnet :
       \/ (AvailableIPsExpire(s) /\ UNCHANGED history)
       \/ \E n \in 0..MaxIPs : (VPCChanges(s, n) /\ UNCHANGED history)

HSpec == HInit /\ [][HNext]_<<vars, history>>

FairHSpec == HSpec /\ Fairness

-----------------------------------------------------------------------------
(* Properties *)

Outstanding(s) == {c \in counted : held[c].subnet = s}

\* The addresses of the reservations h[c] of the calls in S.
IPs(h, S) == MapThenSumSet(LAMBDA c : h[c].ips, S)

ReservedOn(s) == IPs(held, Outstanding(s))

\* A subnet never looks fuller than its listed count minus the reservations
\* made on it since it was listed and still running: every release gives back all
\* it took.  As a tracked count is below its baseline, nothing is tracked of a
\* listed subnet on which no such reservation runs.
NothingLeaks ==
  \A s \in Subnet :
    availableIPs[s] # Absent => Effective(s) >= availableIPs[s] - ReservedOn(s)

\* Unless a release crossed a refresh, the count SelectForLaunch sees is
\* exactly the listed count minus the reservations made since and still running.
ExactUnlessDisturbed ==
  \A s \in Subnet \ disturbed :
    availableIPs[s] # Absent => Effective(s) = availableIPs[s] - ReservedOn(s)

\* The damage of a release that crossed a refresh is not for ever: a later
\* refresh makes the count of a selected subnet exact again, but for the
\* reservations that this refresh drops itself while their calls run on.
DamageHeals ==
  \A s \in UNION {Matching(k) : k \in Key} :
    s \in disturbed ~>
      availableIPs[s] # Absent /\ Effective(s) = availableIPs[s] - ReservedOn(s)

\* Call c ends its reservation on the listed subnet s.
Releases(c, s) ==
  HReleaseInflightIPs(c) /\ s = held[c].subnet /\ availableIPs[s] # Absent

\* What SelectForLaunch sees grows by the reservation of c, or not at all when a
\* refresh has dropped that already.
GivesBackItsOwn(c, s) ==
  Effective(s)' = Effective(s) + (IF c \in counted THEN held[c].ips ELSE 0)

\* What the comment at ReleaseInflightIPs says: a call releases the reservation
\* made for its own creation attempt.  The code does not know whether a refresh
\* has dropped that reservation ("remove any previously tracked IP addresses"),
\* and then gives back one that another call has made since.
ReleaseGivesBackItsOwn ==
  [][\A c \in Call, s \in Subnet : Releases(c, s) => GivesBackItsOwn(c, s)]_<<vars, history>>

\* It holds as long as no release crosses a refresh of the subnet.
UndisturbedReleaseGivesBackItsOwn ==
  [][\A c \in Call, s \in Subnet :
       Releases(c, s) /\ s \notin disturbed' => GivesBackItsOwn(c, s)]_<<vars, history>>
=============================================================================
