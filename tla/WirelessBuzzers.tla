-------------------------- MODULE WirelessBuzzers --------------------------
(***************************************************************************)
(* The two services for wireless buzzers: UdpBuzzerService, which hears    *)
(* them over the network, and BuzzerProvisioningService, which sets up     *)
(* those that are plugged into the box.  They share no state.              *)
(***************************************************************************)
EXTENDS UdpBuzzers

CONSTANTS Path, Color, Keeping, Refusing, Sleepy, MaxOpenAttempts, Swift, Queued, NoValue  \* of Provisioning
VARIABLES port, buzzer, usb, talks, lines, failedOpens, retryIdentify, listed, chosenColors, asked

Plugged == INSTANCE Provisioning WITH None <- NoValue

\* A color that the master chose reaches the buzzer it was chosen for (Provisioning).
ColorForItsBuzzer == Plugged!ColorForItsBuzzer
=============================================================================
