-------------------------- MODULE MCFCMDispatcher ---------------------------
(* Calls whose goroutines meet at the breaker in different ways: a group   *)
(* with more devices than a batch holds, one of them without a platform;   *)
(* two groups, with a FID listed twice; a device and a single call; and    *)
(* Send with nothing to do beside two single calls.                        *)
EXTENDS FCMDispatcher

LOCAL INSTANCE SequencesExt

Device(f, p) == [fid |-> f, platform |-> p]

MCInputs ==
  {[devices |-> <<Device("f1", "unset"), Device("f2", "android"),
                  Device("f3", "android")>>,
    singles |-> {}],
   [devices |-> <<Device("f1", "android"), Device("f2", "ios"),
                  Device("f1", "ios")>>,
    singles |-> {}],
   [devices |-> <<Device("f1", "ios")>>, singles |-> {"topic"}],
   [devices |-> <<>>, singles |-> {"topic", "device"}]}

\* Deduplicate and the grouping in Send as the loops they are in the code,
\* on every short sequence of devices.
DeduplicateLoop(devs) ==
  FoldLeft(LAMBDA out, dev :
             IF \E i \in DOMAIN out : out[i].fid = dev.fid THEN out
             ELSE Append(out, dev),
           <<>>, devs)

GroupLoop(devs, p) ==
  SelectSeq(DeduplicateLoop(devs), LAMBDA dev : PlatformOf(dev) = p)

ASSUME LoopsAgree ==
  LET Devices == [fid : {"f1", "f2"}, platform : {"android", "ios", "unset"}]
  IN  \A n \in 0 .. 3 : \A devs \in [1 .. n -> Devices] :
        /\ Deduplicate(devs) = DeduplicateLoop(devs)
        /\ \A p \in Platforms : Group(devs, p) = GroupLoop(devs, p)
=============================================================================
