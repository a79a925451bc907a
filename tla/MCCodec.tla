------------------------------ MODULE MCCodec -------------------------------
\* The library for the wire versions 1 to 5, OpenFlow 1.0 to 1.4.
EXTENDS Codec

Common10 == INSTANCE OF10Common
Message10 == INSTANCE OF10Message

Common11 == INSTANCE OF11Common
Message11 == INSTANCE OF11Message

Common12 == INSTANCE OF12Common
Message12 == INSTANCE OF12Message
Oxm12 == INSTANCE OF12Oxm

Common13 == INSTANCE OF13Common
Element13 == INSTANCE OF13Element
Message13 == INSTANCE OF13Message
Oxm13 == INSTANCE OF13Oxm

Common14 == INSTANCE OF14Common
Element14 == INSTANCE OF14Element
Message14 == INSTANCE OF14Message
Oxm14 == INSTANCE OF14Oxm

Loxi10 ==
    Common10!Classes \cup Message10!Classes

Loxi11 ==
    Common11!Classes \cup Message11!Classes

Loxi12 ==
    Common12!Classes \cup Message12!Classes \cup Oxm12!Classes

Loxi13 ==
    Common13!Classes \cup Element13!Classes \cup Message13!Classes \cup
    Oxm13!Classes

Loxi14 ==
    Common14!Classes \cup Element14!Classes \cup Message14!Classes \cup
    Oxm14!Classes

MCProtocols == <<Loxi10, Loxi11, Loxi12, Loxi13, Loxi14>>

\* Two classes that no unpack() returns objects of: their `type' is that of
\* another message.
MCOmitted == {<<1, "message.bsn_stats_request">>, <<1, "message.bsn_stats_reply">>}
=============================================================================
