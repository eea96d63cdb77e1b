----------------------------- MODULE Frontend_proof -----------------------------
(***************************************************************************)
(* Machine-checked proofs about Frontend, for any set of devices, any      *)
(* number of reports and any number of reloads: its type correctness, that *)
(* the status shown is the conjunction of the main process's flags, and    *)
(* that no device is listed that the backend does not have.                *)
(***************************************************************************)
EXTENDS Frontend, TLAPS

Messages == DeviceMessage \cup {Greeting, Status(TRUE), Status(FALSE)}

-----------------------------------------------------------------------------
\* What a list of messages comes to, from either end.

LEMMA SoAppend ==
  ASSUME NEW m \in Seq(Messages), NEW x \in Messages, NEW before \in BOOLEAN,
         NEW yes, NEW no, yes # no
  PROVE  SoAfter(before, Append(m, x), yes, no) <=>
           x = yes \/ (x # no /\ SoAfter(before, m, yes, no))
<1> DEFINE n == Len(m)
           a == Append(m, x)
<1>1. /\ n \in Nat /\ DOMAIN m = 1 .. n /\ DOMAIN a = 1 .. n + 1 /\ Len(a) = n + 1
      /\ a[n + 1] = x /\ \A i \in 1 .. n : a[i] = m[i]
  OBVIOUS
<1> HIDE DEF n, a
<1>2. (\A i \in DOMAIN a : a[i] # no) <=> x # no /\ \A i \in DOMAIN m : m[i] # no
  <2>1. \A i \in 1 .. n + 1 : i \in 1 .. n \/ i = n + 1
    BY <1>1
  <2>2. n + 1 \in 1 .. n + 1 /\ \A i \in 1 .. n : i \in 1 .. n + 1
    BY <1>1
  <2> QED BY <1>1, <2>1, <2>2
<1>3. ASSUME NEW i \in DOMAIN a, a[i] = yes, \A j \in i + 1 .. Len(a) : a[j] # no
      PROVE  x = yes \/ (x # no /\ SoAfter(before, m, yes, no))
  <2>1. CASE i = n + 1
    BY <1>1, <1>3, <2>1
  <2>2. CASE i # n + 1
    <3>1. i \in 1 .. n /\ n + 1 \in i + 1 .. n + 1
      BY <1>1, <2>2
    <3>2. \A j \in i + 1 .. n : j \in 1 .. n /\ j \in i + 1 .. n + 1
      BY <1>1, <3>1
    <3> QED BY <1>1, <1>3, <3>1, <3>2 DEF SoAfter, n
  <2> QED BY <2>1, <2>2
<1>4. ASSUME x = yes PROVE SoAfter(before, a, yes, no)
  <2>1. n + 1 \in DOMAIN a /\ (n + 1) + 1 .. Len(a) = {}
    BY <1>1
  <2> QED BY <1>1, <1>4, <2>1 DEF SoAfter
<1>5. ASSUME x # no, NEW i \in DOMAIN m, m[i] = yes, \A j \in i + 1 .. Len(m) : m[j] # no
      PROVE  SoAfter(before, a, yes, no)
  <2>1. i \in DOMAIN a /\ a[i] = yes
    BY <1>1, <1>5
  <2>2. \A j \in i + 1 .. n + 1 : j = n + 1 \/ (j \in i + 1 .. n /\ j \in 1 .. n)
    BY <1>1
  <2>3. \A j \in i + 1 .. Len(a) : a[j] # no
    BY <1>1, <1>5, <2>2 DEF n
  <2> QED BY <2>1, <2>3 DEF SoAfter
<1> QED BY <1>2, <1>3, <1>4, <1>5 DEF SoAfter, a

LEMMA SoTail ==
  ASSUME NEW m \in Seq(Messages), m # <<>>, NEW before \in BOOLEAN,
         NEW yes, NEW no, yes # no
  PROVE  SoAfter(before, m, yes, no) <=>
           SoAfter(Head(m) = yes \/ (before /\ Head(m) # no), Tail(m), yes, no)
<1> DEFINE n == Len(m)
           t == Tail(m)
<1>1. /\ n \in Nat \ {0} /\ DOMAIN m = 1 .. n /\ DOMAIN t = 1 .. n - 1 /\ Len(t) = n - 1
      /\ Head(m) = m[1] /\ \A i \in 1 .. n - 1 : t[i] = m[i + 1]
  OBVIOUS
<1> HIDE DEF n, t
<1>2. (\A j \in 2 .. n : m[j] # no) <=> \A i \in DOMAIN t : t[i] # no
  <2>1. \A j \in 2 .. n : j - 1 \in 1 .. n - 1 /\ m[j] = t[j - 1]
    BY <1>1
  <2>2. \A i \in 1 .. n - 1 : i + 1 \in 2 .. n /\ t[i] = m[i + 1]
    BY <1>1
  <2> QED BY <1>1, <2>1, <2>2
<1>3. ASSUME NEW i \in 2 .. n, m[i] = yes, \A j \in i + 1 .. n : m[j] # no
      PROVE  \E k \in DOMAIN t : t[k] = yes /\ \A j \in k + 1 .. Len(t) : t[j] # no
  <2>1. i - 1 \in DOMAIN t /\ t[i - 1] = yes
    BY <1>1, <1>3
  <2>2. \A j \in (i - 1) + 1 .. n - 1 : j + 1 \in i + 1 .. n /\ t[j] = m[j + 1]
    BY <1>1
  <2> QED BY <1>1, <1>3, <2>1, <2>2
<1>4. ASSUME NEW k \in DOMAIN t, t[k] = yes, \A j \in k + 1 .. Len(t) : t[j] # no
      PROVE  \E i \in 2 .. n : m[i] = yes /\ \A j \in i + 1 .. n : m[j] # no
  <2>1. k + 1 \in 2 .. n /\ m[k + 1] = yes
    BY <1>1, <1>4
  <2>2. \A j \in (k + 1) + 1 .. n : j - 1 \in k + 1 .. n - 1 /\ m[j] = t[j - 1]
    BY <1>1
  <2> QED BY <1>1, <1>4, <2>1, <2>2
<1>5. /\ DOMAIN m = {1} \cup 2 .. n
      /\ 1 + 1 = 2
  BY <1>1
<1>6. SoAfter(before, m, yes, no) <=>
        \/ before /\ m[1] # no /\ \A j \in 2 .. n : m[j] # no
        \/ m[1] = yes /\ \A j \in 2 .. n : m[j] # no
        \/ \E i \in 2 .. n : m[i] = yes /\ \A j \in i + 1 .. n : m[j] # no
  BY <1>5 DEF SoAfter, n
<1>7. SoAfter(m[1] = yes \/ (before /\ m[1] # no), t, yes, no) <=>
        \/ (m[1] = yes \/ (before /\ m[1] # no)) /\ \A j \in 2 .. n : m[j] # no
        \/ \E i \in 2 .. n : m[i] = yes /\ \A j \in i + 1 .. n : m[j] # no
  BY <1>2, <1>3, <1>4 DEF SoAfter
<1> QED BY <1>1, <1>6, <1>7 DEF t

LEMMA MessageKinds ==
  ASSUME NEW x \in Messages
  PROVE  /\ x.type \in {"FoundDevice", "LostDevice", "backend_started", "status"}
         /\ \A d : x = Found(d) <=> x.type = "FoundDevice" /\ x.value = d
         /\ \A d : x = Lost(d) <=> x.type = "LostDevice" /\ x.value = d
         /\ x.type = "status" => x \in {Status(TRUE), Status(FALSE)}
         /\ x.type # "status" => x # Status(TRUE) /\ x # Status(FALSE)
         /\ x.type \in {"FoundDevice", "LostDevice"} => x.value \in Device
BY DEF Messages, DeviceMessage, Greeting, Status, Found, Lost

LEMMA DevicesAppend ==
  ASSUME NEW list \in SUBSET Device, NEW m \in Seq(Messages), NEW x \in Messages
  PROVE  DevicesAfter(list, Append(m, x)) = ListAfter(DevicesAfter(list, m), x)
<1>1. ASSUME NEW d \in Device
      PROVE  SoAfter(d \in list, Append(m, x), Found(d), Lost(d)) <=>
               x = Found(d) \/ (x # Lost(d) /\ SoAfter(d \in list, m, Found(d), Lost(d)))
  <2>1. Found(d) # Lost(d) /\ (d \in list) \in BOOLEAN
    BY DEF Found, Lost
  <2>2. \A b \in BOOLEAN : \A yes, no : yes # no =>
          (SoAfter(b, Append(m, x), yes, no) <=>
             x = yes \/ (x # no /\ SoAfter(b, m, yes, no)))
    BY SoAppend
  <2> QED BY <2>1, <2>2
<1>2. CASE x.type = "FoundDevice"
  <2>1. x.value \in Device /\ \A d \in Device : (x = Found(d) <=> x.value = d) /\ x # Lost(d)
    BY <1>2, MessageKinds
  <2>2. ListAfter(DevicesAfter(list, m), x) = DevicesAfter(list, m) \cup {x.value}
    BY <1>2 DEF ListAfter
  <2> QED BY <1>1, <2>1, <2>2 DEF DevicesAfter
<1>3. CASE x.type = "LostDevice"
  BY <1>1, <1>3, MessageKinds DEF DevicesAfter, ListAfter
<1>4. CASE x.type \notin {"FoundDevice", "LostDevice"}
  <2>1. \A d \in Device : x # Found(d) /\ x # Lost(d)
    BY <1>4, MessageKinds
  <2>2. ListAfter(DevicesAfter(list, m), x) = DevicesAfter(list, m)
    BY <1>4 DEF ListAfter
  <2> QED BY <1>1, <2>1, <2>2 DEF DevicesAfter
<1> QED BY <1>2, <1>3, <1>4

LEMMA DevicesTail ==
  ASSUME NEW list \in SUBSET Device, NEW m \in Seq(Messages), m # <<>>
  PROVE  DevicesAfter(list, m) = DevicesAfter(ListAfter(list, Head(m)), Tail(m))
<1>1. Head(m) \in Messages
  OBVIOUS
<1>2. ASSUME NEW d \in Device
      PROVE  /\ SoAfter(d \in list, m, Found(d), Lost(d)) <=>
                  SoAfter(Head(m) = Found(d) \/ (d \in list /\ Head(m) # Lost(d)),
                          Tail(m), Found(d), Lost(d))
             /\ (d \in ListAfter(list, Head(m))) <=>
                  Head(m) = Found(d) \/ (d \in list /\ Head(m) # Lost(d))
  <2>1. Found(d) # Lost(d) /\ (d \in list) \in BOOLEAN
    BY DEF Found, Lost
  <2> QED BY <1>1, <2>1, SoTail, MessageKinds DEF ListAfter
<1>3. ASSUME NEW d \in Device
      PROVE  SoAfter(d \in list, m, Found(d), Lost(d)) <=>
               SoAfter(d \in ListAfter(list, Head(m)), Tail(m), Found(d), Lost(d))
  BY <1>2 DEF SoAfter
<1> QED BY <1>3 DEF DevicesAfter

LEMMA DevicesGrow ==
  ASSUME NEW list, NEW more, list \subseteq more, NEW m
  PROVE  DevicesAfter(list, m) \subseteq DevicesAfter(more, m)
BY DEF DevicesAfter, SoAfter

LEMMA DevicesOfNone ==
  ASSUME NEW list \in SUBSET Device
  PROVE  DevicesAfter(list, <<>>) = list
BY DEF DevicesAfter, SoAfter

LEMMA ShownAppend ==
  ASSUME NEW shown \in BOOLEAN, NEW m \in Seq(Messages), NEW x \in Messages
  PROVE  ShownAfter(shown, Append(m, x)) <=>
           IF x.type = "status" THEN x = Status(TRUE) ELSE ShownAfter(shown, m)
<1>1. Status(TRUE) # Status(FALSE)
  BY DEF Status
<1>2. SoAfter(shown, Append(m, x), Status(TRUE), Status(FALSE)) <=>
        x = Status(TRUE) \/ (x # Status(FALSE) /\ SoAfter(shown, m, Status(TRUE), Status(FALSE)))
  <2>1. \A yes, no : yes # no =>
          (SoAfter(shown, Append(m, x), yes, no) <=>
             x = yes \/ (x # no /\ SoAfter(shown, m, yes, no)))
    BY SoAppend
  <2> QED BY <1>1, <2>1
<1> QED BY <1>1, <1>2, MessageKinds DEF ShownAfter

LEMMA ShownTail ==
  ASSUME NEW shown \in BOOLEAN, NEW m \in Seq(Messages), m # <<>>
  PROVE  ShownAfter(shown, m) <=> ShownAfter(StatusAfter(shown, Head(m)), Tail(m))
<1>1. Status(TRUE) # Status(FALSE) /\ Head(m) \in Messages
  BY DEF Status
<1>2. SoAfter(shown, m, Status(TRUE), Status(FALSE)) <=>
        SoAfter(Head(m) = Status(TRUE) \/ (shown /\ Head(m) # Status(FALSE)), Tail(m),
                Status(TRUE), Status(FALSE))
  BY <1>1, SoTail
<1>3. StatusAfter(shown, Head(m)) <=> Head(m) = Status(TRUE) \/ (shown /\ Head(m) # Status(FALSE))
  <2>1. CASE Head(m).type = "status"
    <3>1. Status(TRUE).value = TRUE /\ Status(FALSE).value = FALSE
      BY DEF Status
    <3>2. Head(m) = Status(TRUE) \/ Head(m) = Status(FALSE)
      BY <1>1, <2>1, MessageKinds
    <3>3. CASE Head(m) = Status(TRUE)
      BY <2>1, <3>1, <3>3 DEF StatusAfter
    <3>4. CASE Head(m) = Status(FALSE)
      <4>1. StatusAfter(shown, Head(m)) = FALSE
        BY <2>1, <3>1, <3>4 DEF StatusAfter
      <4> QED BY <1>1, <3>4, <4>1
    <3> QED BY <3>2, <3>3, <3>4
  <2>2. CASE Head(m).type # "status"
    BY <1>1, <2>2, MessageKinds DEF StatusAfter
  <2> QED BY <2>1, <2>2
<1> QED BY <1>2, <1>3 DEF ShownAfter, SoAfter

-----------------------------------------------------------------------------
\* The inductive invariant.

AllReady == isPipeConnected /\ isBackendLogicallyReady /\ isRendererReady

\* The status last reported is that of the flags, whichever of them changed.
StatusIsCurrent ==
  window # "closed" => (overallBackendReportedStatus <=> AllReady)

\* As long as the window is the first one, it gets to show that status.
StatusIsOnItsWay ==
  window # "closed" /\ reloads = 0 =>
    (ShownAfter(backendConnected, to_renderer) <=> overallBackendReportedStatus)

\* A page that is not mounted lists nothing, and the first one has been told
\* nothing, so that no status is lost with the messages it does not handle.
NothingShownYet ==
  window = "loading" =>
    /\ devices = {}
    /\ reloads = 0 => /\ ~isRendererReady /\ ~mounted_sent /\ ~backendConnected
                      /\ \A i \in DOMAIN to_renderer : to_renderer[i].type # "status"

FInv ==
  /\ FrontendTypeOK
  /\ StatusIsCurrent
  /\ StatusIsOnItsWay
  /\ NothingShownYet
  /\ NoGhostDevices

LEMMA FInvInit == FrontendInit => FInv
<1> SUFFICES ASSUME FrontendInit PROVE FInv
  OBVIOUS
<1>1. FrontendTypeOK
  <2>1. /\ process \in {"running", "gone"} /\ exit_handled \in BOOLEAN
        /\ pipe \in [Pipes -> PipeStates]
    BY DEF FrontendInit, startBackendProcess, PipeStates
  <2>2. connected \in [Pipes -> BOOLEAN]
    BY DEF FrontendInit
  <2>3. {isPipeConnected, isBackendLogicallyReady, isRendererReady, mounted_sent,
         connectionAttemptReported, overallBackendReportedStatus,
         backendConnected, greeted} \subseteq BOOLEAN
    BY DEF FrontendInit
  <2>4. /\ window \in {"loading", "mounted", "closed"}
        /\ to_main \in Seq(DeviceMessage \cup {Greeting})
        /\ to_renderer \in Seq(DeviceMessage \cup {Status(TRUE), Status(FALSE)})
        /\ devices \subseteq Device /\ listed \subseteq Device
        /\ news \in 0 .. MaxNews /\ reloads \in 0 .. MaxReloads
    BY FrontendBounds DEF FrontendInit
  <2> QED BY <2>1, <2>2, <2>3, <2>4 DEF FrontendTypeOK
<1>2. DevicesAfter({}, <<>>) = {}
  BY DevicesOfNone
<1>3. ~ShownAfter(FALSE, <<>>)
  BY DEF ShownAfter, SoAfter
<1>4. NoGhostDevices
  BY <1>2 DEF FrontendInit, NoGhostDevices
<1>5. StatusIsCurrent /\ StatusIsOnItsWay
  BY <1>3 DEF FrontendInit, StatusIsCurrent, AllReady, StatusIsOnItsWay
<1>6. NothingShownYet
  BY DEF FrontendInit, NothingShownYet
<1> QED BY <1>1, <1>4, <1>5, <1>6 DEF FInv

-----------------------------------------------------------------------------
\* Reporting.

ToRenderer == DeviceMessage \cup {Status(TRUE), Status(FALSE)}
FromBackend == DeviceMessage \cup {Greeting}

LEMMA QueuesOfMessages ==
  ASSUME FrontendTypeOK
  PROVE  /\ to_renderer \in Seq(ToRenderer) /\ to_renderer \in Seq(Messages)
         /\ to_main \in Seq(FromBackend) /\ to_main \in Seq(Messages)
         /\ ToRenderer \subseteq Messages /\ FromBackend \subseteq Messages
<1>1. ToRenderer \subseteq Messages /\ FromBackend \subseteq Messages
  BY DEF ToRenderer, FromBackend, Messages
<1>2. to_renderer \in Seq(ToRenderer) /\ to_main \in Seq(FromBackend)
  BY DEF FrontendTypeOK, ToRenderer, FromBackend
<1> HIDE DEF ToRenderer, FromBackend, Messages
<1>3. ASSUME NEW S \in SUBSET Messages, NEW m \in Seq(S) PROVE m \in Seq(Messages)
  BY <1>3
<1> QED BY <1>1, <1>2, <1>3

\* What updateAndReport does, or finds nothing to do for.
Reports ==
  /\ window # "closed" => (overallBackendReportedStatus' <=> AllReady')
  /\ overallBackendReportedStatus' \in BOOLEAN
  /\ \/ UNCHANGED reported
     \/ /\ window # "closed"
        /\ overallBackendReportedStatus' # overallBackendReportedStatus
        /\ to_renderer' = Append(to_renderer, Status(overallBackendReportedStatus'))

LEMMA UpdateReports ==
  ASSUME FInv, updateAndReport
  PROVE  Reports
<1> DEFINE new == isPipeConnected' /\ isBackendLogicallyReady' /\ isRendererReady'
<1>1. overallBackendReportedStatus \in BOOLEAN /\ new \in BOOLEAN
  BY DEF FInv, FrontendTypeOK
<1>2. IF new # overallBackendReportedStatus /\ window # "closed"
      THEN /\ overallBackendReportedStatus' = new
           /\ to_renderer' = Append(to_renderer, Status(new))
      ELSE UNCHANGED reported
  BY DEF updateAndReport
<1>3. AllReady' <=> new
  BY DEF AllReady
<1> HIDE DEF new
<1>4. CASE new # overallBackendReportedStatus /\ window # "closed"
  BY <1>1, <1>2, <1>3, <1>4 DEF Reports
<1>5. CASE ~(new # overallBackendReportedStatus /\ window # "closed")
  <2>1. UNCHANGED reported
    BY <1>2, <1>5
  <2>2. window # "closed" => (overallBackendReportedStatus <=> new)
    BY <1>1, <1>5
  <2> QED BY <1>1, <1>3, <2>1, <2>2 DEF Reports, reported
<1> QED BY <1>4, <1>5

\* A step that keeps the conjunction of the flags has nothing to report.
LEMMA NothingToReport ==
  ASSUME FInv, UNCHANGED reported, AllReady' <=> AllReady
  PROVE  Reports
<1>1. overallBackendReportedStatus \in BOOLEAN
  BY DEF FInv, FrontendTypeOK
<1> QED BY <1>1 DEF FInv, StatusIsCurrent, Reports, reported

\* The pipes are reported when they change or an error is told.
LEMMA PipesReport ==
  ASSUME FInv, NEW attempt \in BOOLEAN, NEW details \in BOOLEAN,
         updatePipeConnectionStatus(attempt, details),
         connected' \in [Pipes -> BOOLEAN],
         isRendererReady' = isRendererReady,
         \/ isBackendLogicallyReady' = isBackendLogicallyReady
         \/ connected' = [p \in Pipes |-> FALSE] /\ isBackendLogicallyReady' = FALSE
  PROVE  /\ Reports
         /\ isPipeConnected' \in BOOLEAN /\ connectionAttemptReported' \in BOOLEAN
<1> DEFINE new == \A p \in Pipes : connected'[p]
<1>1. IF new # isPipeConnected \/ (~new /\ details /\ ~attempt)
      THEN /\ isPipeConnected' = new
           /\ connectionAttemptReported' = (attempt \/ new \/ details)
           /\ updateAndReport
      ELSE /\ connectionAttemptReported' = attempt
           /\ UNCHANGED <<isPipeConnected, reported>>
  BY DEF updatePipeConnectionStatus
<1>2. new \in BOOLEAN /\ isPipeConnected \in BOOLEAN
  BY DEF FInv, FrontendTypeOK
<1>3. connected' = [p \in Pipes |-> FALSE] => ~new
  BY DEF Pipes
<1> HIDE DEF new
<1>4. CASE new # isPipeConnected \/ (~new /\ details /\ ~attempt)
  <2>1. isPipeConnected' = new /\ updateAndReport
    BY <1>1, <1>4
  <2>2. connectionAttemptReported' = (attempt \/ new \/ details)
    BY <1>1, <1>4
  <2>3. connectionAttemptReported' \in BOOLEAN
    BY <2>2
  <2> QED BY <1>2, <2>1, <2>3, UpdateReports
<1>5. CASE ~(new # isPipeConnected \/ (~new /\ details /\ ~attempt))
  <2>1. /\ isPipeConnected' = isPipeConnected /\ UNCHANGED reported
        /\ connectionAttemptReported' = attempt
    BY <1>1, <1>5
  <2>2. new <=> isPipeConnected
    BY <1>2, <1>5
  <2>3. AllReady' <=> AllReady
    BY <1>3, <2>1, <2>2 DEF AllReady
  <2> QED BY <1>2, <2>1, <2>3, NothingToReport
<1> QED BY <1>4, <1>5

\* A report is on its way to the renderer, and the devices are as they were.
LEMMA ReportsKeeps ==
  ASSUME FInv, Reports, UNCHANGED <<window, reloads, backendConnected, devices>>,
         window = "loading" /\ reloads = 0 => ~isRendererReady' /\ ~mounted_sent'
  PROVE  /\ to_renderer' \in Seq(ToRenderer)
         /\ StatusIsCurrent' /\ StatusIsOnItsWay' /\ NothingShownYet'
         /\ DevicesAfter(devices', to_renderer') = DevicesAfter(devices, to_renderer)
<1> DEFINE x == Status(overallBackendReportedStatus')
<1>1. /\ to_renderer \in Seq(ToRenderer) /\ to_renderer \in Seq(Messages)
      /\ ToRenderer \subseteq Messages
      /\ devices \in SUBSET Device /\ backendConnected \in BOOLEAN
      /\ overallBackendReportedStatus \in BOOLEAN
  BY QueuesOfMessages DEF FInv, FrontendTypeOK
<1>2. /\ overallBackendReportedStatus' \in BOOLEAN
      /\ window # "closed" => (overallBackendReportedStatus' <=> AllReady')
  BY DEF Reports
<1>3. StatusIsCurrent'
  BY <1>2 DEF StatusIsCurrent
<1>4. x \in ToRenderer /\ x.type = "status" /\ (x = Status(TRUE) <=> overallBackendReportedStatus')
  <2>1. overallBackendReportedStatus' = TRUE \/ overallBackendReportedStatus' = FALSE
    BY <1>2
  <2>2. Status(TRUE) # Status(FALSE)
    BY DEF Status
  <2>3. CASE overallBackendReportedStatus' = TRUE
    BY <2>3 DEF ToRenderer, Status
  <2>4. CASE overallBackendReportedStatus' = FALSE
    BY <2>2, <2>4 DEF ToRenderer, Status
  <2> QED BY <2>1, <2>3, <2>4
<1>5. CASE UNCHANGED reported
  <2>1. to_renderer' = to_renderer /\ overallBackendReportedStatus' = overallBackendReportedStatus
    BY <1>5 DEF reported
  <2> QED BY <1>1, <1>3, <2>1 DEF FInv, StatusIsOnItsWay, NothingShownYet
<1>6. CASE /\ window # "closed"
           /\ overallBackendReportedStatus' # overallBackendReportedStatus
           /\ to_renderer' = Append(to_renderer, x)
  <2> HIDE DEF x
  <2>1. to_renderer' \in Seq(ToRenderer)
    BY <1>1, <1>4, <1>6
  <2>2. ShownAfter(backendConnected, to_renderer') <=> x = Status(TRUE)
    BY <1>1, <1>4, <1>6, ShownAppend
  <2>3. StatusIsOnItsWay'
    BY <1>4, <2>2 DEF StatusIsOnItsWay
  <2>4. ~(window = "loading" /\ reloads = 0)
    <3>1. SUFFICES ASSUME window = "loading", reloads = 0 PROVE FALSE
      OBVIOUS
    <3>2. ~isRendererReady /\ ~isRendererReady'
      BY <3>1 DEF FInv, NothingShownYet
    <3>3. ~AllReady /\ ~AllReady'
      BY <3>2 DEF AllReady
    <3>4. (overallBackendReportedStatus <=> AllReady) /\ (overallBackendReportedStatus' <=> AllReady')
      BY <1>2, <1>6 DEF FInv, StatusIsCurrent
    <3> QED BY <1>1, <1>2, <1>6, <3>3, <3>4
  <2>5. NothingShownYet'
    BY <2>4 DEF FInv, NothingShownYet
  <2>6. DevicesAfter(devices, to_renderer') = ListAfter(DevicesAfter(devices, to_renderer), x)
    BY <1>1, <1>4, <1>6, DevicesAppend
  <2>7. ListAfter(DevicesAfter(devices, to_renderer), x) = DevicesAfter(devices, to_renderer)
    BY <1>4 DEF ListAfter
  <2> QED BY <1>3, <2>1, <2>3, <2>5, <2>6, <2>7
<1> QED BY <1>5, <1>6 DEF Reports

-----------------------------------------------------------------------------
\* The events of the main process, one lemma each.

\* The types of what these events may change, besides the messages sent.
MainTypes ==
  /\ process \in {"running", "gone"} /\ exit_handled \in BOOLEAN
  /\ pipe \in [Pipes -> PipeStates] /\ connected \in [Pipes -> BOOLEAN]
  /\ {isPipeConnected, isBackendLogicallyReady, isRendererReady, mounted_sent,
      connectionAttemptReported, overallBackendReportedStatus} \subseteq BOOLEAN
  /\ to_main \in Seq(FromBackend)

LEMMA TypesInParts ==
  FrontendTypeOK <=>
    /\ MainTypes
    /\ to_renderer \in Seq(ToRenderer)
    /\ backendConnected \in BOOLEAN /\ greeted \in BOOLEAN
    /\ window \in {"loading", "mounted", "closed"}
    /\ devices \subseteq Device /\ listed \subseteq Device
    /\ news \in 0 .. MaxNews /\ reloads \in 0 .. MaxReloads
BY DEF FrontendTypeOK, MainTypes, ToRenderer, FromBackend

\* An event that ends with a report, while the backend is silent or gone.
LEMMA ReportedEvent ==
  ASSUME FInv, Reports, MainTypes',
         UNCHANGED <<window, reloads, backendConnected, devices, greeted, listed, news>>,
         window = "loading" /\ reloads = 0 => ~isRendererReady' /\ ~mounted_sent',
         UNCHANGED <<process, to_main>> \/ process' = "gone"
  PROVE  FInv'
<1>1. /\ to_renderer' \in Seq(ToRenderer)
      /\ StatusIsCurrent' /\ StatusIsOnItsWay' /\ NothingShownYet'
      /\ DevicesAfter(devices', to_renderer') = DevicesAfter(devices, to_renderer)
  BY ReportsKeeps
<1>2. FrontendTypeOK'
  BY <1>1 DEF FInv, FrontendTypeOK, MainTypes, ToRenderer, FromBackend
<1>3. NoGhostDevices'
  BY <1>1 DEF FInv, NoGhostDevices
<1> QED BY <1>1, <1>2, <1>3 DEF FInv

\* Before the first page is mounted the main process has not heard of it.
LEMMA NotHeardOf ==
  ASSUME FInv, UNCHANGED <<isRendererReady, mounted_sent>>
  PROVE  window = "loading" /\ reloads = 0 => ~isRendererReady' /\ ~mounted_sent'
BY DEF FInv, NothingShownYet

LEMMA PipeConnectedKeeps ==
  ASSUME FInv, NEW p \in Pipes, PipeConnected(p)
  PROVE  FInv'
<1>1. FrontendTypeOK
  BY DEF FInv
<1>2. /\ pipe' \in [Pipes -> PipeStates] /\ connected' \in [Pipes -> BOOLEAN]
      /\ UNCHANGED <<flags, renderer, backend, exit_handled, to_main>>
      /\ updatePipeConnectionStatus(FALSE, FALSE)
  BY <1>1 DEF PipeConnected, FrontendTypeOK, PipeStates
<1>3. /\ Reports /\ isPipeConnected' \in BOOLEAN /\ connectionAttemptReported' \in BOOLEAN
  BY <1>2, PipesReport DEF flags
<1>4. MainTypes'
  BY <1>1, <1>2, <1>3, TypesInParts DEF MainTypes, Reports, flags, renderer, backend
<1> QED BY <1>2, <1>3, <1>4, NotHeardOf, ReportedEvent DEF flags, renderer, backend

LEMMA PipeClosedKeeps ==
  ASSUME FInv, NEW p \in Pipes, PipeClosed(p)
  PROVE  FInv'
<1>1. FrontendTypeOK /\ connectionAttemptReported \in BOOLEAN
  BY DEF FInv, FrontendTypeOK
<1>2. /\ pipe' \in [Pipes -> PipeStates] /\ connected' \in [Pipes -> BOOLEAN]
      /\ UNCHANGED <<flags, renderer, backend, exit_handled, to_main>>
      /\ updatePipeConnectionStatus(connectionAttemptReported, TRUE)
  BY <1>1 DEF PipeClosed, FrontendTypeOK, PipeStates
<1>3. /\ Reports /\ isPipeConnected' \in BOOLEAN /\ connectionAttemptReported' \in BOOLEAN
  BY <1>1, <1>2, PipesReport DEF flags
<1>4. MainTypes'
  BY <1>1, <1>2, <1>3, TypesInParts DEF MainTypes, Reports, flags, renderer, backend
<1> QED BY <1>2, <1>3, <1>4, NotHeardOf, ReportedEvent DEF flags, renderer, backend

LEMMA CleanupTypes ==
  ASSUME FrontendTypeOK, cleanupPipes
  PROVE  pipe' \in [Pipes -> PipeStates] /\ to_main' \in Seq(FromBackend)
<1>1. to_main' = <<>>
  BY DEF cleanupPipes
<1>2. ASSUME NEW p \in Pipes
      PROVE  (CASE pipe[p] = "open" -> "destroyed"
                [] pipe[p] \in {"listening", "connecting"} -> "closed"
                [] OTHER -> pipe[p]) \in PipeStates
  <2>1. pipe[p] \in PipeStates
    BY DEF FrontendTypeOK
  <2> QED BY <2>1 DEF PipeStates
<1> QED BY <1>1, <1>2 DEF cleanupPipes

LEMMA ProcessExitKeeps ==
  ASSUME FInv, ProcessExit
  PROVE  FInv'
<1>1. FrontendTypeOK /\ connectionAttemptReported \in BOOLEAN
  BY DEF FInv, FrontendTypeOK
<1>2. /\ process' = "gone" /\ exit_handled' = TRUE /\ cleanupPipes
      /\ connected' = [p \in Pipes |-> FALSE] /\ isBackendLogicallyReady' = FALSE
      /\ UNCHANGED <<isRendererReady, renderer, backend>>
      /\ updatePipeConnectionStatus(connectionAttemptReported, TRUE)
  BY DEF ProcessExit, backend
<1>3. connected' \in [Pipes -> BOOLEAN]
  BY <1>2
<1>4. /\ Reports /\ isPipeConnected' \in BOOLEAN /\ connectionAttemptReported' \in BOOLEAN
  BY <1>1, <1>2, <1>3, PipesReport
<1>5. pipe' \in [Pipes -> PipeStates] /\ to_main' \in Seq(FromBackend)
  BY <1>1, <1>2, CleanupTypes
<1>6. MainTypes'
  BY <1>1, <1>2, <1>3, <1>4, <1>5, TypesInParts DEF MainTypes, Reports, renderer, backend
<1> QED BY <1>2, <1>4, <1>6, NotHeardOf, ReportedEvent DEF renderer, backend

LEMMA SpawnFailsKeeps ==
  ASSUME FInv, SpawnFails
  PROVE  FInv'
<1>1. FrontendTypeOK /\ connectionAttemptReported \in BOOLEAN
  BY DEF FInv, FrontendTypeOK
<1>2. /\ process' = "gone" /\ exit_handled' = TRUE
      /\ connected' = [p \in Pipes |-> FALSE]
      /\ UNCHANGED <<flags, pipe, renderer, greeted, listed, news, to_main>>
      /\ updatePipeConnectionStatus(connectionAttemptReported, TRUE)
  BY DEF SpawnFails
<1>3. connected' \in [Pipes -> BOOLEAN]
  BY <1>2
<1>4. /\ Reports /\ isPipeConnected' \in BOOLEAN /\ connectionAttemptReported' \in BOOLEAN
  BY <1>1, <1>2, <1>3, PipesReport DEF flags
<1>5. MainTypes'
  BY <1>1, <1>2, <1>3, <1>4, TypesInParts DEF MainTypes, Reports, flags, renderer
<1> QED BY <1>2, <1>4, <1>5, NotHeardOf, ReportedEvent DEF flags, renderer

LEMMA RendererReadyKeeps ==
  ASSUME FInv, RendererReady
  PROVE  FInv'
<1>1. FrontendTypeOK
  BY DEF FInv
<1>2. /\ mounted_sent /\ mounted_sent' = FALSE /\ isRendererReady' = TRUE
      /\ UNCHANGED <<isBackendLogicallyReady, sockets, window, backendConnected, devices,
                     reloads, backend, exit_handled, to_main>>
      /\ IF isRendererReady THEN UNCHANGED reported ELSE updateAndReport
  BY DEF RendererReady
<1>3. Reports
  <2>1. CASE isRendererReady
    <3>1. AllReady' <=> AllReady
      BY <1>2, <2>1 DEF AllReady, sockets
    <3> QED BY <1>2, <2>1, <3>1, NothingToReport
  <2>2. CASE ~isRendererReady
    BY <1>2, <2>2, UpdateReports
  <2> QED BY <2>1, <2>2
<1>4. MainTypes'
  BY <1>1, <1>2, <1>3, TypesInParts DEF MainTypes, Reports, sockets, backend
<1>5. ~(window = "loading" /\ reloads = 0)
  BY <1>2 DEF FInv, NothingShownYet
<1> QED BY <1>2, <1>3, <1>4, <1>5, ReportedEvent DEF sockets, backend

LEMMA QuitKeeps ==
  ASSUME FInv, Quit
  PROVE  FInv'
<1>1. FrontendTypeOK
  BY DEF FInv
<1>2. /\ isPipeConnected' = FALSE /\ isBackendLogicallyReady' = FALSE
      /\ isRendererReady' = FALSE /\ cleanupPipes /\ process' = "gone"
      /\ UNCHANGED <<connected, connectionAttemptReported, mounted_sent, backendConnected,
                     devices, reloads, greeted, listed, news, exit_handled>>
  BY DEF Quit
<1>3. pipe' \in [Pipes -> PipeStates] /\ to_main' \in Seq(FromBackend)
  BY <1>1, <1>2, CleanupTypes
<1>4. CASE window' = "closed" /\ UNCHANGED reported
  <2>1. FrontendTypeOK'
    BY <1>1, <1>2, <1>3, <1>4 DEF FrontendTypeOK, FromBackend, reported
  <2> QED BY <1>2, <1>4, <2>1 DEF FInv, StatusIsCurrent, StatusIsOnItsWay,
             NothingShownYet, NoGhostDevices
<1>5. CASE UNCHANGED window /\ updateAndReport
  <2>1. Reports
    BY <1>5, UpdateReports
  <2>2. MainTypes'
    BY <1>1, <1>2, <1>3, <2>1, TypesInParts DEF MainTypes, Reports
  <2>3. window = "loading" /\ reloads = 0 => ~isRendererReady' /\ ~mounted_sent'
    BY <1>2 DEF FInv, NothingShownYet
  <2> QED BY <1>2, <1>5, <2>1, <2>2, <2>3, ReportedEvent
<1> QED BY <1>4, <1>5 DEF Quit

\* A message of the backend is read: it is the greeting, and is taken for
\* itself, or the device it names is passed on.
LEMMA MessageReceivedKeeps ==
  ASSUME FInv, MessageReceived
  PROVE  FInv'
<1> DEFINE x == Head(to_main)
<1>1. FrontendTypeOK
  BY DEF FInv
<1>2. /\ to_main # <<>> /\ to_main' = Tail(to_main)
      /\ UNCHANGED <<pipe, connected, connectionAttemptReported, renderer, backend,
                     exit_handled>>
  BY DEF MessageReceived
<1>3. /\ x \in FromBackend /\ x \in Messages
      /\ to_main' \in Seq(FromBackend) /\ to_main' \in Seq(Messages)
      /\ to_renderer \in Seq(ToRenderer) /\ to_renderer \in Seq(Messages)
      /\ to_main \in Seq(Messages)
  <2>1. to_main \in Seq(FromBackend) /\ to_main \in Seq(Messages) /\ FromBackend \subseteq Messages
    BY <1>1, QueuesOfMessages
  <2> HIDE DEF FromBackend, Messages
  <2>2. x \in FromBackend /\ to_main' \in Seq(FromBackend) /\ to_main' \in Seq(Messages)
    BY <1>2, <2>1
  <2> QED BY <1>1, <2>1, <2>2, QueuesOfMessages
<1>4. devices \in SUBSET Device /\ DevicesAfter(devices, to_renderer) \in SUBSET Device
  BY <1>1 DEF FrontendTypeOK, DevicesAfter
<1>5. DevicesAfter(DevicesAfter(devices, to_renderer), to_main) =
        DevicesAfter(ListAfter(DevicesAfter(devices, to_renderer), x), to_main')
  BY <1>2, <1>3, <1>4, DevicesTail
<1>6. CASE x = Greeting
  <2>1. /\ isBackendLogicallyReady' = TRUE
        /\ UNCHANGED <<isPipeConnected, isRendererReady>>
        /\ IF isBackendLogicallyReady THEN UNCHANGED reported ELSE updateAndReport
    BY <1>6 DEF MessageReceived
  <2>2. Reports
    <3>1. CASE isBackendLogicallyReady
      <4>1. AllReady' <=> AllReady
        BY <2>1, <3>1 DEF AllReady
      <4> QED BY <2>1, <3>1, <4>1, NothingToReport
    <3>2. CASE ~isBackendLogicallyReady
      BY <2>1, <3>2, UpdateReports
    <3> QED BY <3>1, <3>2
  <2>3. window = "loading" /\ reloads = 0 => ~isRendererReady' /\ ~mounted_sent'
    BY <1>2, <2>1, NotHeardOf DEF renderer
  <2>4. /\ to_renderer' \in Seq(ToRenderer)
        /\ StatusIsCurrent' /\ StatusIsOnItsWay' /\ NothingShownYet'
        /\ DevicesAfter(devices', to_renderer') = DevicesAfter(devices, to_renderer)
    BY <1>2, <2>2, <2>3, ReportsKeeps DEF renderer
  <2>5. FrontendTypeOK'
    BY <1>1, <1>2, <1>3, <2>1, <2>2, <2>4
       DEF FrontendTypeOK, Reports, ToRenderer, FromBackend, renderer, backend
  <2>6. ListAfter(DevicesAfter(devices, to_renderer), x) = DevicesAfter(devices, to_renderer)
    BY <1>6 DEF ListAfter, Greeting
  <2>7. NoGhostDevices'
    BY <1>2, <1>5, <2>4, <2>6 DEF FInv, NoGhostDevices, renderer, backend
  <2> QED BY <2>4, <2>5, <2>7 DEF FInv
<1>7. CASE x # Greeting
  <2>1. /\ to_renderer' = IF window = "closed" THEN to_renderer ELSE Append(to_renderer, x)
        /\ UNCHANGED <<flags, isPipeConnected, overallBackendReportedStatus>>
    BY <1>7 DEF MessageReceived
  <2>2. x \in DeviceMessage /\ x \in ToRenderer /\ x.type # "status"
    BY <1>3, <1>7 DEF FromBackend, ToRenderer, DeviceMessage
  <2> HIDE DEF x
  <2>3. to_renderer' \in Seq(ToRenderer)
    BY <1>3, <2>1, <2>2
  <2>4. FrontendTypeOK'
    BY <1>1, <1>2, <1>3, <2>1, <2>3
       DEF FrontendTypeOK, ToRenderer, FromBackend, renderer, backend, flags
  <2>5. StatusIsCurrent'
    BY <1>2, <2>1 DEF FInv, StatusIsCurrent, AllReady, renderer, flags
  <2>6. CASE window = "closed"
    BY <1>2, <2>1, <2>4, <2>5, <2>6 DEF FInv, StatusIsOnItsWay, NothingShownYet,
       NoGhostDevices, renderer
  <2>7. CASE window # "closed"
    <3>1. to_renderer' = Append(to_renderer, x)
      BY <2>1, <2>7
    <3>2. ShownAfter(backendConnected, to_renderer') <=> ShownAfter(backendConnected, to_renderer)
      <4>1. backendConnected \in BOOLEAN
        BY <1>1 DEF FrontendTypeOK
      <4> QED BY <1>3, <2>2, <3>1, <4>1, ShownAppend
    <3>3. StatusIsOnItsWay'
      BY <1>2, <2>1, <3>2 DEF FInv, StatusIsOnItsWay, renderer
    <3>4. DevicesAfter(devices, to_renderer') =
            ListAfter(DevicesAfter(devices, to_renderer), x)
      BY <1>3, <1>4, <3>1, DevicesAppend
    <3>5. NoGhostDevices'
      BY <1>2, <1>5, <3>4 DEF FInv, NoGhostDevices, renderer, backend
    <3>6. ASSUME NEW i \in DOMAIN to_renderer'
          PROVE  to_renderer'[i] = x \/ (i \in DOMAIN to_renderer /\ to_renderer'[i] = to_renderer[i])
      BY <1>3, <3>1
    <3>7. NothingShownYet'
      <4>1. UNCHANGED <<window, devices, reloads, isRendererReady, mounted_sent, backendConnected>>
        BY <1>2, <2>1 DEF renderer, flags
      <4> QED BY <2>2, <3>6, <4>1 DEF FInv, NothingShownYet
    <3> QED BY <2>4, <2>5, <3>3, <3>5, <3>7 DEF FInv
  <2> QED BY <2>6, <2>7
<1> QED BY <1>6, <1>7

-----------------------------------------------------------------------------
\* The renderer.

LEMMA MountedKeeps ==
  ASSUME FInv, Mounted
  PROVE  FInv'
<1>1. /\ window = "loading" /\ window' = "mounted" /\ mounted_sent' = TRUE
      /\ UNCHANGED <<flags, sockets, reported, backendConnected, devices, reloads, backend,
                     exit_handled, to_main>>
  BY DEF Mounted
<1>2. FrontendTypeOK'
  BY <1>1 DEF FInv, FrontendTypeOK, flags, sockets, reported, backend
<1> QED BY <1>1, <1>2 DEF FInv, StatusIsCurrent, AllReady, StatusIsOnItsWay,
           NothingShownYet, NoGhostDevices, flags, sockets, reported, backend

LEMMA RendererHandlesKeeps ==
  ASSUME FInv, RendererHandles
  PROVE  FInv'
<1> DEFINE x == Head(to_renderer)
<1>1. FrontendTypeOK
  BY DEF FInv
<1>2. /\ window # "closed" /\ to_renderer # <<>> /\ to_renderer' = Tail(to_renderer)
      /\ UNCHANGED <<flags, sockets, overallBackendReportedStatus, window, mounted_sent,
                     reloads, backend, exit_handled, to_main>>
  BY DEF RendererHandles
<1>3. IF window = "mounted"
      THEN backendConnected' = StatusAfter(backendConnected, x) /\ devices' = ListAfter(devices, x)
      ELSE UNCHANGED <<backendConnected, devices>>
  BY DEF RendererHandles
<1>4. /\ to_renderer \in Seq(Messages) /\ ToRenderer \subseteq Messages
      /\ devices \in SUBSET Device /\ backendConnected \in BOOLEAN
      /\ to_renderer' \in Seq(ToRenderer) /\ x \in ToRenderer
      /\ window \in {"loading", "mounted"}
  <2>1. /\ to_renderer \in Seq(Messages) /\ ToRenderer \subseteq Messages
        /\ to_renderer \in Seq(ToRenderer)
    BY <1>1, QueuesOfMessages
  <2> HIDE DEF ToRenderer, Messages
  <2>2. to_renderer' \in Seq(ToRenderer) /\ x \in ToRenderer
    BY <1>2, <2>1
  <2> QED BY <1>1, <1>2, <2>1, <2>2 DEF FrontendTypeOK
<1>5. DevicesAfter(devices, to_renderer) = DevicesAfter(ListAfter(devices, x), to_renderer')
  BY <1>2, <1>4, DevicesTail
<1>6. ShownAfter(backendConnected, to_renderer) <=>
        ShownAfter(StatusAfter(backendConnected, x), to_renderer')
  BY <1>2, <1>4, ShownTail
<1>7. ListAfter(devices, x) \in SUBSET Device /\ StatusAfter(backendConnected, x) \in BOOLEAN
  <2>1. x \in Messages /\ (x.type \in {"FoundDevice", "LostDevice"} => x.value \in Device)
    BY <1>4, MessageKinds
  <2>2. ListAfter(devices, x) \in SUBSET Device
    BY <1>4, <2>1 DEF ListAfter
  <2>3. x.type = "status" => x.value \in BOOLEAN
    <3>1. Status(TRUE).value = TRUE /\ Status(FALSE).value = FALSE
      BY DEF Status
    <3>2. x.type = "status" => x = Status(TRUE) \/ x = Status(FALSE)
      BY <2>1, MessageKinds
    <3> QED BY <3>1, <3>2
  <2> QED BY <1>4, <2>2, <2>3 DEF StatusAfter
<1> HIDE DEF x
<1>8. devices' \in SUBSET Device /\ backendConnected' \in BOOLEAN
  BY <1>3, <1>4, <1>7
<1>9. FrontendTypeOK'
  BY <1>1, <1>2, <1>4, <1>8
     DEF FrontendTypeOK, ToRenderer, flags, sockets, backend
<1>10. StatusIsCurrent'
  BY <1>2 DEF FInv, StatusIsCurrent, AllReady, flags, sockets
<1>11. CASE window = "mounted"
  <2>1. backendConnected' = StatusAfter(backendConnected, x) /\ devices' = ListAfter(devices, x)
    BY <1>3, <1>11
  <2>2. StatusIsOnItsWay'
    BY <1>2, <1>6, <2>1 DEF FInv, StatusIsOnItsWay
  <2>3. NothingShownYet'
    BY <1>2, <1>11 DEF NothingShownYet
  <2>4. NoGhostDevices'
    BY <1>2, <1>5, <2>1 DEF FInv, NoGhostDevices, backend
  <2> QED BY <1>9, <1>10, <2>2, <2>3, <2>4 DEF FInv
<1>12. CASE window = "loading"
  <2>1. UNCHANGED <<backendConnected, devices>> /\ devices = {}
    BY <1>3, <1>12 DEF FInv, NothingShownYet
  <2>2. ASSUME NEW i \in DOMAIN to_renderer'
        PROVE  i + 1 \in DOMAIN to_renderer /\ to_renderer'[i] = to_renderer[i + 1]
    BY <1>2, <1>4
  <2>3. 1 \in DOMAIN to_renderer /\ x = to_renderer[1]
    BY <1>2, <1>4 DEF x
  <2>4. NothingShownYet'
    <3>1. UNCHANGED <<window, reloads, isRendererReady, mounted_sent>>
      BY <1>2 DEF flags
    <3> QED BY <1>12, <2>1, <2>2, <3>1 DEF FInv, NothingShownYet
  <2>5. StatusIsOnItsWay'
    <3>1. SUFFICES ASSUME reloads = 0 PROVE StatusIsOnItsWay'
      BY <1>2 DEF StatusIsOnItsWay
    <3>2. x.type # "status"
      BY <1>12, <2>3, <3>1 DEF FInv, NothingShownYet
    <3>3. StatusAfter(backendConnected, x) = backendConnected
      BY <3>2 DEF StatusAfter
    <3> QED BY <1>2, <1>6, <2>1, <3>3 DEF FInv, StatusIsOnItsWay
  <2>6. devices \subseteq ListAfter(devices, x)
    BY <2>1
  <2>7. DevicesAfter(devices', to_renderer') \subseteq DevicesAfter(devices, to_renderer)
    BY <1>5, <2>1, <2>6, DevicesGrow
  <2>8. DevicesAfter(DevicesAfter(devices', to_renderer'), to_main)
          \subseteq DevicesAfter(DevicesAfter(devices, to_renderer), to_main)
    BY <2>7, DevicesGrow
  <2>9. NoGhostDevices'
    BY <1>2, <2>8 DEF FInv, NoGhostDevices, backend
  <2> QED BY <1>9, <1>10, <2>4, <2>5, <2>9 DEF FInv
<1> QED BY <1>4, <1>11, <1>12

\* A page that is loaded anew knows nothing, and what was sent to the old one
\* does not reach it.
LEMMA ReloadKeeps ==
  ASSUME FInv, Reload
  PROVE  FInv'
<1>1. /\ window # "closed" /\ reloads < MaxReloads /\ reloads' = reloads + 1
      /\ window' = "loading" /\ to_renderer' = <<>> /\ backendConnected' = FALSE
      /\ devices' = {}
      /\ UNCHANGED <<flags, sockets, overallBackendReportedStatus, mounted_sent, backend,
                     exit_handled, to_main>>
  BY DEF Reload
<1>2. reloads \in Nat /\ reloads' \in 0 .. MaxReloads /\ reloads' # 0
  BY <1>1, FrontendBounds DEF FInv, FrontendTypeOK
<1>3. FrontendTypeOK'
  <2>1. to_renderer' \in Seq(DeviceMessage \cup {Status(TRUE), Status(FALSE)})
    BY <1>1
  <2>2. devices' \subseteq Device /\ backendConnected' \in BOOLEAN
    BY <1>1
  <2> QED BY <1>1, <1>2, <2>1, <2>2 DEF FInv, FrontendTypeOK, flags, sockets, backend
<1>4. DevicesAfter(devices', to_renderer') = {}
  BY <1>1, DevicesOfNone
<1>5. DevicesAfter({}, to_main) \subseteq DevicesAfter(DevicesAfter(devices, to_renderer), to_main)
  BY DevicesGrow
<1>6. NoGhostDevices'
  BY <1>1, <1>4, <1>5 DEF FInv, NoGhostDevices, backend
<1>7. StatusIsCurrent' /\ StatusIsOnItsWay' /\ NothingShownYet'
  BY <1>1, <1>2 DEF FInv, StatusIsCurrent, AllReady, StatusIsOnItsWay, NothingShownYet,
     flags, sockets
<1> QED BY <1>3, <1>6, <1>7 DEF FInv

-----------------------------------------------------------------------------
\* The backend.

\* Its steps leave the status and the window alone.
LEMMA StatusKeeps ==
  ASSUME FInv, UNCHANGED <<flags, isPipeConnected, reported, renderer>>
  PROVE  StatusIsCurrent' /\ StatusIsOnItsWay' /\ NothingShownYet'
BY DEF FInv, StatusIsCurrent, AllReady, StatusIsOnItsWay, NothingShownYet,
   flags, reported, renderer

LEMMA BackendConnectsKeeps ==
  ASSUME FInv, NEW p \in Pipes, BackendConnects(p)
  PROVE  FInv'
<1>1. /\ pipe' = [pipe EXCEPT ![p] = "connecting"]
      /\ UNCHANGED <<connected, connectionAttemptReported, isPipeConnected, flags,
                     reported, renderer, backend, exit_handled, to_main>>
  BY DEF BackendConnects
<1>2. FrontendTypeOK'
  BY <1>1 DEF FInv, FrontendTypeOK, PipeStates, flags, reported, renderer, backend
<1>3. NoGhostDevices'
  BY <1>1 DEF FInv, NoGhostDevices, reported, renderer, backend
<1> QED BY <1>1, <1>2, <1>3, StatusKeeps DEF FInv

LEMMA BackendGreetsKeeps ==
  ASSUME FInv, BackendGreets
  PROVE  FInv'
<1>1. /\ greeted' = TRUE /\ to_main' = Append(to_main, Greeting)
      /\ UNCHANGED <<flags, sockets, reported, renderer, process, listed, news, exit_handled>>
  BY DEF BackendGreets
<1>2. to_main \in Seq(Messages) /\ to_main \in Seq(FromBackend)
  BY QueuesOfMessages DEF FInv
<1>3. Greeting \in FromBackend /\ Greeting \in Messages
  BY DEF FromBackend, Messages
<1>4. to_main' \in Seq(FromBackend)
  BY <1>1, <1>2, <1>3
<1>5. FrontendTypeOK'
  BY <1>1, <1>4 DEF FInv, FrontendTypeOK, FromBackend, flags, sockets, reported, renderer
<1>6. \A list \in SUBSET Device : DevicesAfter(list, to_main') = DevicesAfter(list, to_main)
  <2>1. SUFFICES ASSUME NEW list \in SUBSET Device
                 PROVE  DevicesAfter(list, to_main') = DevicesAfter(list, to_main)
    OBVIOUS
  <2>2. DevicesAfter(list, to_main') = ListAfter(DevicesAfter(list, to_main), Greeting)
    BY <1>1, <1>2, <1>3, DevicesAppend
  <2> QED BY <2>2 DEF ListAfter, Greeting
<1>7. DevicesAfter(devices, to_renderer) \in SUBSET Device
  BY DEF DevicesAfter
<1>8. NoGhostDevices'
  BY <1>1, <1>6, <1>7 DEF FInv, NoGhostDevices, reported, renderer
<1> QED BY <1>1, <1>5, <1>8, StatusKeeps DEF FInv, sockets

LEMMA BackendReportsKeeps ==
  ASSUME FInv, NEW d \in Device, BackendReports(d)
  PROVE  FInv'
<1> DEFINE x == IF d \in listed THEN Lost(d) ELSE Found(d)
<1>1. /\ process = "running" /\ news < MaxNews /\ news' = news + 1
      /\ to_main' = Append(to_main, x)
      /\ UNCHANGED <<flags, sockets, reported, renderer, process, greeted, exit_handled>>
  BY DEF BackendReports
<1>2. /\ d \in listed => listed' = listed \ {d}
      /\ d \notin listed => listed' = listed \cup {d}
  BY DEF BackendReports
<1>3. x \in DeviceMessage /\ x \in FromBackend /\ x \in Messages
  BY DEF DeviceMessage, FromBackend, Messages, Found, Lost
<1>4. to_main \in Seq(Messages) /\ to_main \in Seq(FromBackend)
  BY QueuesOfMessages DEF FInv
<1>5. \A list \in SUBSET Device :
        DevicesAfter(list, to_main') = ListAfter(DevicesAfter(list, to_main), x)
  BY <1>1, <1>3, <1>4, DevicesAppend
<1>6. \A list : list \subseteq listed => ListAfter(list, x) \subseteq listed'
  <2>1. CASE d \in listed
    BY <1>2, <2>1 DEF ListAfter, Lost
  <2>2. CASE d \notin listed
    BY <1>2, <2>2 DEF ListAfter, Found
  <2> QED BY <2>1, <2>2
<1> HIDE DEF x
<1>7. to_main' \in Seq(FromBackend)
  BY <1>1, <1>3, <1>4
<1>8. listed' \subseteq Device /\ news' \in 0 .. MaxNews
  BY <1>1, <1>2, FrontendBounds DEF FInv, FrontendTypeOK
<1>9. FrontendTypeOK'
  BY <1>1, <1>7, <1>8 DEF FInv, FrontendTypeOK, FromBackend, flags, sockets, reported, renderer
<1>10. DevicesAfter(devices, to_renderer) \in SUBSET Device
  BY DEF DevicesAfter
<1>11. NoGhostDevices'
  BY <1>1, <1>5, <1>6, <1>10 DEF FInv, NoGhostDevices, reported, renderer
<1> QED BY <1>1, <1>9, <1>11, StatusKeeps DEF FInv, sockets

LEMMA BackendDiesKeeps ==
  ASSUME FInv, BackendDies
  PROVE  FInv'
<1>1. /\ process' = "gone"
      /\ UNCHANGED <<flags, sockets, reported, renderer, greeted, listed, news, exit_handled,
                     to_main>>
  BY DEF BackendDies
<1>2. FrontendTypeOK'
  BY <1>1 DEF FInv, FrontendTypeOK, flags, sockets, reported, renderer
<1>3. NoGhostDevices'
  BY <1>1 DEF NoGhostDevices
<1> QED BY <1>1, <1>2, <1>3, StatusKeeps DEF FInv, sockets

-----------------------------------------------------------------------------
LEMMA FInvNext ==
  ASSUME FInv, [FrontendNext]_fvars
  PROVE  FInv'
<1>1. ASSUME NEW p \in Pipes, PipeConnected(p) \/ PipeClosed(p) \/ BackendConnects(p)
      PROVE  FInv'
  BY <1>1, PipeConnectedKeeps, PipeClosedKeeps, BackendConnectsKeeps
<1>2. ASSUME NEW d \in Device, BackendReports(d) PROVE FInv'
  BY <1>2, BackendReportsKeeps
<1>3. CASE Rests \/ UNCHANGED fvars
  <2>1. UNCHANGED <<flags, sockets, reported, renderer, backend, exit_handled, to_main>>
    BY <1>3 DEF Rests, fvars
  <2>2. FrontendTypeOK'
    BY <2>1 DEF FInv, FrontendTypeOK, flags, sockets, reported, renderer, backend
  <2>3. NoGhostDevices'
    BY <2>1 DEF FInv, NoGhostDevices, reported, renderer, backend
  <2> QED BY <2>1, <2>2, <2>3, StatusKeeps DEF FInv, sockets
<1>4. CASE FrontendNext
  BY <1>1, <1>2, <1>3, <1>4, ProcessExitKeeps, SpawnFailsKeeps, MessageReceivedKeeps,
     MountedKeeps, RendererReadyKeeps, RendererHandlesKeeps, ReloadKeeps, QuitKeeps,
     BackendGreetsKeeps, BackendDiesKeeps DEF FrontendNext
<1> QED BY <1>3, <1>4

\* Every step of main process, renderer and backend keeps the invariant: what
\* is known of the status and of the devices at each end of the two queues.
THEOREM FrontendInvariance == FrontendSpec => []FInv
BY FInvInit, FInvNext, PTL DEF FrontendSpec

\* The type invariant of the main process and of the renderer (main.js,
\* app.js).
THEOREM FrontendTypes == FrontendSpec => []FrontendTypeOK
<1>1. FInv => FrontendTypeOK
  BY DEF FInv
<1> QED BY <1>1, FrontendInvariance, PTL

\* The window that was never reloaded gets to show the conjunction of the three
\* flags, although it is told of changes only (updateAndReportOverallBackendStatus).
THEOREM StatusShown == FrontendSpec => []StatusIsShown
<1>1. FInv => StatusIsShown
  BY DEF FInv, StatusIsCurrent, StatusIsOnItsWay, StatusIsShown, AllReady
<1> QED BY <1>1, FrontendInvariance, PTL

\* No device is listed for good that the backend does not list (updateDeviceList
\* and removeDevice), however often the window is reloaded.
THEOREM NoGhosts == FrontendSpec => []NoGhostDevices
<1>1. FInv => NoGhostDevices
  BY DEF FInv
<1> QED BY <1>1, FrontendInvariance, PTL
================================================================================
