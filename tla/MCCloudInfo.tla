----------------------------- MODULE MCCloudInfo -----------------------------
(* Three provider names, one of which does not detect this instance;     *)
(* under the second a stub may be registered as well as the real one.     *)
(* Enough for a duplicate registration to replace an active provider by   *)
(* an inactive one, for no, one or two active providers, and for Info     *)
(* calls to range the map in different orders.                           *)
EXTENDS CloudInfo, TLC

CONSTANTS gce, aws, azure, gceProvider, awsProvider, azureProvider, stubProvider

MCNames == {gce, aws, azure}
MCImpls == {gceProvider, awsProvider, azureProvider, stubProvider}
MCRegistrations == {<<gce, gceProvider>>, <<aws, awsProvider>>, <<aws, stubProvider>>,
                    <<azure, azureProvider>>}
MCActive == {gceProvider, awsProvider}
=============================================================================
