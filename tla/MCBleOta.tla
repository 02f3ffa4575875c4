------------------------------- MODULE MCBleOta -------------------------------
\* An update of up to two writes over a link that drops, with the navigator on.
EXTENDS BleOta
=============================================================================
