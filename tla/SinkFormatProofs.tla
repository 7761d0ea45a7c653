-------------------------- MODULE SinkFormatProofs --------------------------
(***************************************************************************)
(* Theorems about get_sink_format() for every product, setting, sink and   *)
(* stream.                                                                 *)
(***************************************************************************)
EXTENDS SinkFormat, TLAPS

\* The Dolby capability is PCM or a format of the Dolby family that the sink takes.
LEMMA DolbyCapability ==
  ASSUME NEW dev \in Devices
  PROVE  get_sink_capability(dev) \in Takes(dev) \cap {PCM, AC3, E_AC3, TRUEHD, MAT}
<1> DEFINE best == IF Descs(dev).mat \/ (~AsksEdid(dev) /\ Descs(dev).mat_pcm_only) THEN MAT
                   ELSE IF AsksEdid(dev) /\ dev.edid.mat = "1_0" THEN TRUEHD
                   ELSE IF Descs(dev).ddp THEN E_AC3
                   ELSE IF Descs(dev).dd THEN AC3 ELSE PCM
<1>1. best \in Takes(dev) \cap {PCM, AC3, E_AC3, TRUEHD, MAT}
  BY DEF Takes, Sources, PCM, AC3, E_AC3, TRUEHD, MAT
<1>2. Descs(dev).ddp => E_AC3 \in Takes(dev)
  BY DEF Takes, Sources, PCM, AC3, E_AC3, TRUEHD, MAT
<1>3. Descs(dev).dd => AC3 \in Takes(dev)
  BY DEF Takes, Sources, PCM, AC3, E_AC3, TRUEHD, MAT
<1>4. get_sink_capability(dev) = Forced(dev, best)
  BY DEF get_sink_capability
<1> QED BY <1>1, <1>2, <1>3, <1>4 DEF Forced

\* The DTS capability is PCM or a format of the DTS family that the sink takes.
LEMMA DtsCapability ==
  ASSUME NEW dev \in Devices
  PROVE  get_sink_dts_capability(dev) \in Takes(dev) \cap ({PCM} \cup Dts)
BY DEF get_sink_dts_capability, Takes, Descs, AsksEdid, Sources, Devices, Dts,
   PCM, AC3, E_AC3, TRUEHD, MAT, HeAac, HE_AAC_V1, HE_AAC_V2, DTS, DTS_HD, AC4

\* In a layered sink the lower of a Dolby format and one that it takes is taken.
LEMMA LowerDolby ==
  ASSUME NEW dev \in Devices, Layered(dev),
         NEW f \in {PCM, AC3, E_AC3, MAT},
         NEW g \in Takes(dev) \cap {PCM, AC3, E_AC3, TRUEHD, MAT}
  PROVE  Lower(f, g) \in Takes(dev) \cap {PCM, AC3, E_AC3, TRUEHD, MAT}
<1>1. PCM \in Takes(dev)
  BY DEF Takes, Sources
<1> QED BY <1>1 DEF Layered, Lower, PCM, AC3, E_AC3, TRUEHD, MAT

LEMMA LowerDts ==
  ASSUME NEW dev \in Devices, Layered(dev),
         NEW f \in Dts, NEW g \in Takes(dev) \cap ({PCM} \cup Dts)
  PROVE  Lower(f, g) \in Takes(dev) \cap ({PCM} \cup Dts)
BY DEF Layered, Lower, Dts, PCM, DTS, DTS_HD

\* What passes as it is, is taken by a layered sink, and keeps its family.
LEMMA DirectTaken ==
  ASSUME NEW dev \in Devices, Layered(dev), NEW rate32 \in BOOLEAN,
         NEW source \in Sources \ {TRUEHD}
  PROVE  Direct(dev, rate32, source) \in
           Takes(dev) \cap IF source \in Dts THEN {PCM} \cup Dts
                           ELSE {PCM, AC3, E_AC3, TRUEHD, MAT}
<1>1. CASE source \in Dts
  BY <1>1, DtsCapability, LowerDts DEF Direct
<1>2. CASE source \notin Dts
  <2> DEFINE cap == get_sink_capability(dev)
             f == IF source \in External THEN Lower(source, cap) ELSE cap
  <2>1. cap \in Takes(dev) \cap {PCM, AC3, E_AC3, TRUEHD, MAT}
    BY DolbyCapability
  <2>2. source \in External => source \in {PCM, AC3, E_AC3, MAT}
    BY <1>2 DEF External, Sources
  <2>3. f \in Takes(dev) \cap {PCM, AC3, E_AC3, TRUEHD, MAT}
    BY <2>1, <2>2, LowerDolby
  <2>4. f = E_AC3 => AC3 \in Takes(dev)
    BY <2>3 DEF Layered
  <2>5. Direct(dev, rate32, source) = IF rate32 /\ f = E_AC3 THEN AC3 ELSE f
    BY <1>2 DEF Direct, get_suitable_output_format
  <2> QED BY <1>2, <2>3, <2>4, <2>5
<1> QED BY <1>1, <1>2

----------------------------------------------------------------------------
\* get_sink_format()'s "logic min(source format / digital format / sink
\* capability)" (aml_audio_stream.c:325): in the modes that follow the sink, what
\* the HAL sends it is a format that it takes, if with a format it takes the lower
\* ones of the family; and a DTS stream is sent as DTS or PCM and no other stream
\* is sent as DTS.
THEOREM SinkTakesFormat ==
  ASSUME NEW dev \in Devices, Layered(dev), dev.hdmi_format \in {"AUTO", "BYPASS"},
         NEW rate32 \in BOOLEAN, NEW source \in Sources
  PROVE  get_sink_format(dev, rate32, source).sink \in
           Takes(dev) \cap IF source \in Dts THEN {PCM} \cup Dts ELSE Sources \ Dts
<1> DEFINE f == Known(source)
           Family == IF source \in Dts THEN {PCM} \cup Dts ELSE Sources \ Dts
<1>1. /\ f \in Sources \ {TRUEHD}
      /\ f \in Dts <=> source \in Dts
      /\ PCM \in Takes(dev) \cap Family
  BY DEF Known, Sources, Takes, Dts, PCM, TRUEHD, DTS, DTS_HD
<1>2. Direct(dev, rate32, f) \in Takes(dev) \cap Family
  <2>1. {PCM, AC3, E_AC3, TRUEHD, MAT} \subseteq Sources \ Dts
    BY DEF Sources, Dts, PCM, AC3, E_AC3, TRUEHD, MAT, DTS, DTS_HD
  <2>2. Direct(dev, rate32, f) \in
          Takes(dev) \cap IF f \in Dts THEN {PCM} \cup Dts
                          ELSE {PCM, AC3, E_AC3, TRUEHD, MAT}
    BY <1>1, DirectTaken
  <2> QED BY <1>1, <2>1, <2>2
<1>3. source \notin Dts =>
        Lower(dev.ms12_max, get_sink_capability(dev)) \in Takes(dev) \cap Family
  <2>1. dev.ms12_max \in {PCM, AC3, E_AC3, MAT}
    BY DEF Devices
  <2>2. Lower(dev.ms12_max, get_sink_capability(dev))
          \in Takes(dev) \cap {PCM, AC3, E_AC3, TRUEHD, MAT}
    BY <2>1, DolbyCapability, LowerDolby
  <2> QED BY <2>2 DEF Sources, Dts, PCM, AC3, E_AC3, TRUEHD, MAT, DTS, DTS_HD
<1>4. ToHdmi(dev, rate32, f).sink \in Takes(dev) \cap Family
  BY <1>1, <1>2, <1>3 DEF ToHdmi
<1>5. ToSpeaker(dev, f).sink \in Takes(dev) \cap Family
  BY <1>1 DEF ToSpeaker
<1> QED BY <1>1, <1>4, <1>5 DEF get_sink_format

\* "For optical output, min(dd, source format, digital format)"
\* (aml_audio_stream.c:327): where S/PDIF carries something else than the sink, in
\* whatever mode, it is PCM, DD or DTS, which is all that S/PDIF carries.  An
\* HE-AAC stream is left out: its number is below that of AC3, so that min()
\* yields HE-AAC for it.
THEOREM OpticalFits ==
  ASSUME NEW dev \in Devices, NEW rate32 \in BOOLEAN, NEW source \in Sources \ HeAac,
         get_sink_format(dev, rate32, source).dual_output
  PROVE  \/ get_sink_format(dev, rate32, source).optical \in {PCM, AC3, DTS}
         \/ dev.dcv_bypass /\ ~dev.ms12
<1> DEFINE f == Known(source)
<1>1. f \in Sources \ HeAac
  BY DEF Known, Sources, HeAac, PCM, HE_AAC_V1, HE_AAC_V2
<1>2. /\ Lower(f, AC3) \in {PCM, AC3}
      /\ f \in Dts => Lower(f, DTS) = DTS
  BY <1>1 DEF Lower, Sources, Dts, HeAac, PCM, AC3, E_AC3, DTS, DTS_HD, TRUEHD, AC4, MAT
<1>3. ASSUME NEW sink, NEW encodes \in BOOLEAN, Spdif(dev, f, sink, encodes) # sink
      PROVE  Spdif(dev, f, sink, encodes) \in {PCM, AC3, DTS}
  BY <1>2, <1>3 DEF Spdif
<1>4. ToHdmi(dev, rate32, f).sink # ToHdmi(dev, rate32, f).optical
        => ToHdmi(dev, rate32, f).optical \in {PCM, AC3, DTS}
  BY <1>3 DEF ToHdmi, Devices
<1>5. ToSpeaker(dev, f).optical \in {PCM, AC3, DTS}
  BY <1>2 DEF ToSpeaker
<1> QED BY <1>4, <1>5 DEF get_sink_format
=============================================================================
