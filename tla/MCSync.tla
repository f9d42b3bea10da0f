------------------------------- MODULE MCSync -------------------------------
(* Instances of DeviceSync for TLC. *)
EXTENDS DeviceSync, TLC

CONSTANTS d1, d2, c1, c2, t1, me

MCDeviceOf == (c1 :> d1) @@ (c2 :> d2)

\* Two commands on the file of one device.
MCOneDevice == (c1 :> d1) @@ (c2 :> d1)

Share(flag) ==
  Change("set_consent", "share_public_topics", flag, 0, "public", me)

\* The edits withdraw consent; seed and the browser give it again.
MCChanges == {Share(FALSE)}

\* seed signs consent and recommendations one after the other, with dates
\* before the profile was created.
MCSeeds ==
  {<<DatedChange(Share(TRUE), 1),
     DatedChange(Change("recommend", t1, TRUE, 1, "public", me), 2)>>}

MCRegistration ==
  Sign(Change("set_profile", me, TRUE, 0, "public", me), 0, 0, 3)

\* Files from before registration events, and files as create makes them.
MCNewHistories == {{}, {MCRegistration}}
MCNewHistory == {{MCRegistration}}

\* The browser's client shares again, at a clock a device may use too; once
\* more in a batch whose second event has an id that is taken.
MCBatches ==
  {{Sign(Share(TRUE), 1, 1, 4)},
   {Sign(Share(TRUE), 1, 1, 4), Sign(Share(FALSE), 0, 1, 4)}}
=============================================================================
