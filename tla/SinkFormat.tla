----------------------------- MODULE SinkFormat -----------------------------
(***************************************************************************)
(* Which format goes to the HDMI sink and to S/PDIF: get_sink_format() and *)
(* its helpers in audio_hal/aml_audio_stream.c, with what                  *)
(* audio_hw_profile.c makes of the sink's EDID.  A format is the high byte *)
(* of its audio_format_t, because the code compares formats with min().    *)
(***************************************************************************)
EXTENDS Integers

PCM == 0
HE_AAC_V1 == 5
HE_AAC_V2 == 6
AC3 == 9
E_AC3 == 10
DTS == 11
DTS_HD == 12
TRUEHD == 14
AC4 == 34
MAT == 36

Dts == {DTS, DTS_HD}
HeAac == {HE_AAC_V1, HE_AAC_V2}

\* What a stream may carry.  TRUEHD stands for the formats that are taken for PCM.
Sources == {PCM, AC3, E_AC3, DTS, DTS_HD, TRUEHD, AC4, MAT} \cup HeAac

MatKinds == {"none", "1_0", "2_0", "2_1", "invalid"}

\* What the formats depend on: the product, the settings, the connected devices,
\* and what the sink says it decodes (in an EDID, or in hdmi_descs through ARC).
Devices ==
  [is_TV : BOOLEAN, is_BDS : BOOLEAN, arc : BOOLEAN, a2dp : BOOLEAN,
   hdmi_format : {"PCM", "DD", "DDP", "AUTO", "BYPASS", "other"},
   ms12 : BOOLEAN, ms12_max : {E_AC3, MAT}, force_ddp : BOOLEAN,
   continuous : BOOLEAN, spdif_independent : BOOLEAN, dcv_bypass : BOOLEAN,
   edid : [dd : BOOLEAN, ddp : BOOLEAN, dts : BOOLEAN, dtshd : BOOLEAN, mat : MatKinds],
   descs : [dd : BOOLEAN, ddp : BOOLEAN, dts : BOOLEAN, dtshd : BOOLEAN, mat : BOOLEAN,
            mat_pcm_only : BOOLEAN]]

Lower(a, b) == IF a < b THEN a ELSE b

----------------------------------------------------------------------------
(* What the sink can take. *)

\* The EDID of the sink is asked, not what ARC has told.
AsksEdid(dev) == ~dev.is_TV \/ dev.is_BDS

\* get_hdmi_sink_cap_new() as far as hdmi_descs goes.  A sink of DTS-HD is one of
\* DTS; MAT 1.0 is not counted as MAT.
Descs(dev) ==
  IF AsksEdid(dev)
  THEN [dd |-> dev.edid.dd, ddp |-> dev.edid.ddp,
        dts |-> dev.edid.dts \/ dev.edid.dtshd, dtshd |-> dev.edid.dtshd,
        mat |-> dev.edid.mat \in {"2_0", "2_1"}, mat_pcm_only |-> dev.descs.mat_pcm_only]
  ELSE dev.descs

\* MS12 may be told to send no more than Dolby Digital Plus.
Forced(dev, capability) ==
  IF dev.ms12 /\ dev.force_ddp
  THEN IF Descs(dev).ddp THEN E_AC3 ELSE IF Descs(dev).dd THEN AC3 ELSE capability
  ELSE capability

get_sink_capability(dev) ==
  LET d == Descs(dev)
  IN  Forced(dev,
        IF d.mat \/ (~AsksEdid(dev) /\ d.mat_pcm_only) THEN MAT
        ELSE IF AsksEdid(dev) /\ dev.edid.mat = "1_0" THEN TRUEHD
        ELSE IF d.ddp THEN E_AC3
        ELSE IF d.dd THEN AC3 ELSE PCM)

\* Without ARC the names of the formats are searched for "AUDIO_FORMAT_DTS" first,
\* which is also how the name of DTS-HD begins.
get_sink_dts_capability(dev) ==
  LET d == Descs(dev)
  IN  IF dev.is_TV
      THEN IF d.dtshd THEN DTS_HD ELSE IF d.dts THEN DTS ELSE PCM
      ELSE IF dev.edid.dts \/ dev.edid.dtshd THEN DTS ELSE PCM

----------------------------------------------------------------------------
(* What is sent. *)

External == {PCM, AC3, E_AC3, TRUEHD, MAT} \cup Dts

\* The lower of the two where min() orders them; at 32 and 128 kHz there is no
\* Dolby Digital Plus.
get_suitable_output_format(rate32, source, sink) ==
  LET f == IF source \in External THEN Lower(source, sink) ELSE sink
  IN  IF rate32 /\ f = E_AC3 THEN AC3 ELSE f

\* What passes as it is, in AUTO without MS12 and in BYPASS.
Direct(dev, rate32, source) ==
  IF source \in Dts THEN Lower(source, get_sink_dts_capability(dev))
  ELSE get_suitable_output_format(rate32, source, get_sink_capability(dev))

\* S/PDIF gets DD or DTS when the sink takes only PCM.
Spdif(dev, source, sink, encodes) ==
  IF dev.spdif_independent /\ sink = PCM
  THEN IF source \in Dts THEN Lower(source, DTS)
       ELSE IF encodes THEN AC3 ELSE Lower(source, AC3)
  ELSE sink

\* The formats <<sink, optical>> for an HDMI sink, or ARC.
ToHdmi(dev, rate32, source) ==
  LET same(f) == [sink |-> f, optical |-> f]
      auto == IF dev.ms12 /\ source \notin Dts
              THEN Lower(dev.ms12_max, get_sink_capability(dev))
              ELSE Direct(dev, rate32, source)
      bypass == Direct(dev, rate32, source)
  IN  CASE dev.hdmi_format = "DD" ->
             same(IF dev.continuous THEN AC3
                  ELSE get_suitable_output_format(rate32, source, AC3))
        [] dev.hdmi_format = "DDP" -> same(IF dev.ms12 THEN E_AC3 ELSE source)
        [] dev.hdmi_format = "AUTO" ->
             [sink |-> auto, optical |-> Spdif(dev, source, auto, dev.ms12)]
        [] dev.hdmi_format = "BYPASS" ->
             [sink |-> bypass, optical |-> Spdif(dev, source, bypass, FALSE)]
        [] OTHER -> same(PCM)

\* The formats for speaker or headphones.  The case of DDP has no break and goes
\* on into the one of AUTO.
ToSpeaker(dev, source) ==
  [sink |-> PCM,
   optical |->
     CASE dev.hdmi_format = "DD" -> IF dev.continuous THEN AC3 ELSE Lower(source, AC3)
       [] dev.hdmi_format \in {"DDP", "AUTO"} ->
            IF source \in Dts THEN DTS ELSE IF dev.ms12 THEN AC3 ELSE Lower(source, AC3)
       [] dev.hdmi_format = "BYPASS" -> Lower(source, IF source \in Dts THEN DTS ELSE AC3)
       [] OTHER -> PCM]

\* Other formats are taken for PCM.
Known(source) == IF source = TRUEHD THEN PCM ELSE source

get_sink_format(dev, rate32, source) ==
  LET f == Known(source)
      sent == IF dev.arc \/ AsksEdid(dev) THEN ToHdmi(dev, rate32, f) ELSE ToSpeaker(dev, f)
  IN  IF dev.a2dp
      THEN [sink |-> PCM, optical |-> PCM, dual_output |-> FALSE]
      ELSE [sink |-> sent.sink,
            optical |-> IF dev.dcv_bypass /\ ~dev.ms12 /\ f \in {AC3, E_AC3} \cup HeAac
                        THEN f ELSE sent.optical,
            dual_output |-> sent.sink # sent.optical]

----------------------------------------------------------------------------
(* What holds of the choice. *)

\* The formats the sink says it decodes.
Takes(dev) ==
  LET d == Descs(dev)
  IN  {f \in Sources :
         \/ f = PCM
         \/ f = AC3 /\ d.dd
         \/ f = E_AC3 /\ d.ddp
         \/ f = DTS /\ d.dts
         \/ f = DTS_HD /\ d.dtshd
         \/ f = MAT /\ (d.mat \/ (~AsksEdid(dev) /\ d.mat_pcm_only))
         \/ f = TRUEHD /\ AsksEdid(dev) /\ dev.edid.mat \in {"1_0", "2_0", "2_1"}}

\* What min() relies on: a sink of a Dolby or a DTS format takes the lower ones.
Layered(dev) ==
  /\ Takes(dev) \cap {MAT, TRUEHD} # {} => E_AC3 \in Takes(dev)
  /\ E_AC3 \in Takes(dev) => AC3 \in Takes(dev)
  /\ DTS_HD \in Takes(dev) => DTS \in Takes(dev)
=============================================================================
