-------------------------- MODULE MCDeviceLifecycle --------------------------
(* DeviceLifecycle for TLC: two queues, two starts of a client.            *)
EXTENDS DeviceLifecycle

=============================================================================
