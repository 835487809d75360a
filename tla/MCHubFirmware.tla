--------------------------- MODULE MCHubFirmware ---------------------------
(* Instances of HubFirmware for TLC. *)
EXTENDS HubFirmware

TwoWaits == <<0, 1>>

\* Once two tasks have cut into one another, a behaviour is followed without a power cut
\* and, after a second write, only while a network with a password is stored.
FewRaces == raced => boots = 0 /\ (writes = 1 \/ nvs.ssid \in Networks)

=============================================================================
