------------------------------ MODULE MCCloudRows ------------------------------
EXTENDS CloudRows

Row(p, n, h) == [protocol |-> p, name |-> n, host |-> h, active |-> TRUE]
MCGivenReader == Row("snmp", "default", None)
MCRows == {MCGivenReader, Row("snmp", "label", None), Row("modbus_tcp", "default", "h1")}
MCChanges == {[active |-> FALSE], [name |-> "label"]}
==============================================================================
