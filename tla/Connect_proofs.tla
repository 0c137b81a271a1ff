--------------------------- MODULE Connect_proofs ---------------------------
(***************************************************************************)
(* Proofs about Connect, for any number of callers, any board on any       *)
(* transport it has, any order of registration, and any numbers of missing *)
(* replies, of rounds and of failures of the store.                        *)
(***************************************************************************)
EXTENDS Connect, FiniteSetTheorems, TLAPS

(***************************************************************************)
(* The scripts.                                                            *)
(***************************************************************************)
LEMMA PartDomains ==
    /\ DOMAIN Discover = {"r_info", "r_uinfo", "r_pers", "r_limits"}
    /\ DOMAIN RemapprProbe = {"r_nodes", "r_caps"}
    /\ DOMAIN EstablishSession = {"r_begin", "r_finish"}
    /\ DOMAIN LoadDeviceConfig = {"r_config"}
    /\ DOMAIN ViaProbe = {"v_proto", "v_fw", "v_layers"}
    /\ DOMAIN ViaCreate = {"v_enc", "v_keys"}
    /\ DOMAIN IdentifyVial = {"l_proto", "l_id"}
    /\ DOMAIN LoadVial = {"l_def", "l_fw", "l_layers"}
    /\ DOMAIN VialCreate = {"l_keys"}
    /\ DOMAIN ConnectWithoutDeviceDef = {"f_layers", "f_saved", "f_enc", "f_keys"}
    /\ DOMAIN KeychronProbe = {"k_proto", "k_fw", "k_feat", "k_misc", "k_layers"}
    /\ DOMAIN KeychronConnect = {"k_led", "k_default", "k_enc", "k_keys"}
    /\ DOMAIN ZmkProbe = {"z_info"}
  <1>1. DOMAIN Discover = {"r_info", "r_uinfo", "r_pers", "r_limits"}
    BY DEF Discover
  <1>2. DOMAIN RemapprProbe = {"r_nodes", "r_caps"}
    BY DEF RemapprProbe
  <1>3. DOMAIN EstablishSession = {"r_begin", "r_finish"}
    BY DEF EstablishSession
  <1>4. DOMAIN LoadDeviceConfig = {"r_config"}
    BY DEF LoadDeviceConfig
  <1>5. DOMAIN ViaProbe = {"v_proto", "v_fw", "v_layers"}
    BY DEF ViaProbe
  <1>6. DOMAIN ViaCreate = {"v_enc", "v_keys"}
    BY DEF ViaCreate
  <1>7. DOMAIN IdentifyVial = {"l_proto", "l_id"}
    BY DEF IdentifyVial
  <1>8. DOMAIN LoadVial = {"l_def", "l_fw", "l_layers"}
    BY DEF LoadVial
  <1>9. DOMAIN VialCreate = {"l_keys"}
    BY DEF VialCreate
  <1>10. DOMAIN ConnectWithoutDeviceDef = {"f_layers", "f_saved", "f_enc", "f_keys"}
    BY DEF ConnectWithoutDeviceDef
  <1>11. DOMAIN KeychronProbe = {"k_proto", "k_fw", "k_feat", "k_misc", "k_layers"}
    BY DEF KeychronProbe
  <1>12. DOMAIN KeychronConnect = {"k_led", "k_default", "k_enc", "k_keys"}
    BY DEF KeychronConnect
  <1>13. DOMAIN ZmkProbe = {"z_info"}
    BY DEF ZmkProbe
  <1> QED BY <1>1, <1>2, <1>3, <1>4, <1>5, <1>6, <1>7, <1>8, <1>9, <1>10, <1>11, <1>12, <1>13

\* What a script says of a step, in one part f of it.
InScript(f) == DOMAIN f \subseteq Steps /\ \A s \in DOMAIN f : Script[s] = f[s]

LEMMA ScriptParts ==
    /\ Steps = UNION {DOMAIN Discover, DOMAIN RemapprProbe, DOMAIN EstablishSession,
                      DOMAIN LoadDeviceConfig, DOMAIN ViaProbe, DOMAIN ViaCreate,
                      DOMAIN IdentifyVial, DOMAIN LoadVial, DOMAIN VialCreate,
                      DOMAIN ConnectWithoutDeviceDef, DOMAIN KeychronProbe, DOMAIN KeychronConnect,
                      DOMAIN ZmkProbe}
    /\ InScript(Discover)
    /\ InScript(RemapprProbe)
    /\ InScript(EstablishSession)
    /\ InScript(LoadDeviceConfig)
    /\ InScript(ViaProbe)
    /\ InScript(ViaCreate)
    /\ InScript(IdentifyVial)
    /\ InScript(LoadVial)
    /\ InScript(VialCreate)
    /\ InScript(ConnectWithoutDeviceDef)
    /\ InScript(KeychronProbe)
    /\ InScript(KeychronConnect)
    /\ InScript(ZmkProbe)
  <1> DEFINE At(s, k) == \A i \in 1..13 : s \in DOMAIN Parts[i] => i = k
  <1>1. DOMAIN Parts = 1..13
    BY DEF Parts
  <1>2. /\ Parts[1] = Discover
        /\ Parts[2] = RemapprProbe
        /\ Parts[3] = EstablishSession
        /\ Parts[4] = LoadDeviceConfig
        /\ Parts[5] = ViaProbe
        /\ Parts[6] = ViaCreate
        /\ Parts[7] = IdentifyVial
        /\ Parts[8] = LoadVial
        /\ Parts[9] = VialCreate
        /\ Parts[10] = ConnectWithoutDeviceDef
        /\ Parts[11] = KeychronProbe
        /\ Parts[12] = KeychronConnect
        /\ Parts[13] = ZmkProbe
    BY DEF Parts
  <1>3. Steps = UNION {DOMAIN Parts[i] : i \in 1..13}
    BY <1>1 DEF Steps
  <1>4. \A s \in Steps : \A k \in 1..13 :
            s \in DOMAIN Parts[k] /\ At(s, k) => Script[s] = Parts[k][s]
    BY <1>1 DEF Script
  <1>5. InScript(Discover)
    <2>1. \A s \in DOMAIN Discover : At(s, 1)
      BY <1>2, PartDomains
    <2>2. DOMAIN Discover \subseteq Steps
      BY <1>2, <1>3
    <2> HIDE DEF At
    <2> QED BY <1>2, <1>4, <2>1, <2>2 DEF InScript
  <1>6. InScript(RemapprProbe)
    <2>1. \A s \in DOMAIN RemapprProbe : At(s, 2)
      BY <1>2, PartDomains
    <2>2. DOMAIN RemapprProbe \subseteq Steps
      BY <1>2, <1>3
    <2> HIDE DEF At
    <2> QED BY <1>2, <1>4, <2>1, <2>2 DEF InScript
  <1>7. InScript(EstablishSession)
    <2>1. \A s \in DOMAIN EstablishSession : At(s, 3)
      BY <1>2, PartDomains
    <2>2. DOMAIN EstablishSession \subseteq Steps
      BY <1>2, <1>3
    <2> HIDE DEF At
    <2> QED BY <1>2, <1>4, <2>1, <2>2 DEF InScript
  <1>8. InScript(LoadDeviceConfig)
    <2>1. \A s \in DOMAIN LoadDeviceConfig : At(s, 4)
      BY <1>2, PartDomains
    <2>2. DOMAIN LoadDeviceConfig \subseteq Steps
      BY <1>2, <1>3
    <2> HIDE DEF At
    <2> QED BY <1>2, <1>4, <2>1, <2>2 DEF InScript
  <1>9. InScript(ViaProbe)
    <2>1. \A s \in DOMAIN ViaProbe : At(s, 5)
      BY <1>2, PartDomains
    <2>2. DOMAIN ViaProbe \subseteq Steps
      BY <1>2, <1>3
    <2> HIDE DEF At
    <2> QED BY <1>2, <1>4, <2>1, <2>2 DEF InScript
  <1>10. InScript(ViaCreate)
    <2>1. \A s \in DOMAIN ViaCreate : At(s, 6)
      BY <1>2, PartDomains
    <2>2. DOMAIN ViaCreate \subseteq Steps
      BY <1>2, <1>3
    <2> HIDE DEF At
    <2> QED BY <1>2, <1>4, <2>1, <2>2 DEF InScript
  <1>11. InScript(IdentifyVial)
    <2>1. \A s \in DOMAIN IdentifyVial : At(s, 7)
      BY <1>2, PartDomains
    <2>2. DOMAIN IdentifyVial \subseteq Steps
      BY <1>2, <1>3
    <2> HIDE DEF At
    <2> QED BY <1>2, <1>4, <2>1, <2>2 DEF InScript
  <1>12. InScript(LoadVial)
    <2>1. \A s \in DOMAIN LoadVial : At(s, 8)
      BY <1>2, PartDomains
    <2>2. DOMAIN LoadVial \subseteq Steps
      BY <1>2, <1>3
    <2> HIDE DEF At
    <2> QED BY <1>2, <1>4, <2>1, <2>2 DEF InScript
  <1>13. InScript(VialCreate)
    <2>1. \A s \in DOMAIN VialCreate : At(s, 9)
      BY <1>2, PartDomains
    <2>2. DOMAIN VialCreate \subseteq Steps
      BY <1>2, <1>3
    <2> HIDE DEF At
    <2> QED BY <1>2, <1>4, <2>1, <2>2 DEF InScript
  <1>14. InScript(ConnectWithoutDeviceDef)
    <2>1. \A s \in DOMAIN ConnectWithoutDeviceDef : At(s, 10)
      BY <1>2, PartDomains
    <2>2. DOMAIN ConnectWithoutDeviceDef \subseteq Steps
      BY <1>2, <1>3
    <2> HIDE DEF At
    <2> QED BY <1>2, <1>4, <2>1, <2>2 DEF InScript
  <1>15. InScript(KeychronProbe)
    <2>1. \A s \in DOMAIN KeychronProbe : At(s, 11)
      BY <1>2, PartDomains
    <2>2. DOMAIN KeychronProbe \subseteq Steps
      BY <1>2, <1>3
    <2> HIDE DEF At
    <2> QED BY <1>2, <1>4, <2>1, <2>2 DEF InScript
  <1>16. InScript(KeychronConnect)
    <2>1. \A s \in DOMAIN KeychronConnect : At(s, 12)
      BY <1>2, PartDomains
    <2>2. DOMAIN KeychronConnect \subseteq Steps
      BY <1>2, <1>3
    <2> HIDE DEF At
    <2> QED BY <1>2, <1>4, <2>1, <2>2 DEF InScript
  <1>17. InScript(ZmkProbe)
    <2>1. \A s \in DOMAIN ZmkProbe : At(s, 13)
      BY <1>2, PartDomains
    <2>2. DOMAIN ZmkProbe \subseteq Steps
      BY <1>2, <1>3
    <2> HIDE DEF At
    <2> QED BY <1>2, <1>4, <2>1, <2>2 DEF InScript
  <1>18. Steps = UNION {DOMAIN Discover, DOMAIN RemapprProbe, DOMAIN EstablishSession,
                        DOMAIN LoadDeviceConfig, DOMAIN ViaProbe, DOMAIN ViaCreate,
                        DOMAIN IdentifyVial, DOMAIN LoadVial, DOMAIN VialCreate,
                        DOMAIN ConnectWithoutDeviceDef, DOMAIN KeychronProbe,
                        DOMAIN KeychronConnect, DOMAIN ZmkProbe}
    BY <1>2, <1>3
  <1> QED BY <1>5, <1>6, <1>7, <1>8, <1>9, <1>10, <1>11, <1>12, <1>13, <1>14, <1>15, <1>16, <1>17, <1>18

LEMMA RemapprRows ==
    /\ Script["r_info"] = Step("info", "informed", "r_uinfo")
    /\ Script["r_uinfo"] = Step("uinfo", "informed", "r_nodes")
    /\ Script["r_pers"] = Step("pers", "r_limits", "r_limits")
    /\ Script["r_limits"] = Step("limits", "role", "role")
    /\ Script["r_nodes"] = Step("nodes", "found", "no")
    /\ Script["r_caps"] = Step("caps", "found", "found")
    /\ Script["r_begin"] = Step("begin", "r_finish", "drop")
    /\ Script["r_finish"] = Step("finish", "r_config", "drop")
    /\ Script["r_config"] = Step("config", "serve", "drop")
  <1>1. DOMAIN Discover = {"r_info", "r_uinfo", "r_pers", "r_limits"} /\ InScript(Discover)
    BY PartDomains, ScriptParts
  <1>2. /\ Discover["r_info"] = Step("info", "informed", "r_uinfo")
        /\ Discover["r_uinfo"] = Step("uinfo", "informed", "r_nodes")
        /\ Discover["r_pers"] = Step("pers", "r_limits", "r_limits")
        /\ Discover["r_limits"] = Step("limits", "role", "role")
    BY DEF Discover, Optional
  <1>3. DOMAIN RemapprProbe = {"r_nodes", "r_caps"} /\ InScript(RemapprProbe)
    BY PartDomains, ScriptParts
  <1>4. /\ RemapprProbe["r_nodes"] = Step("nodes", "found", "no")
        /\ RemapprProbe["r_caps"] = Step("caps", "found", "found")
    BY DEF RemapprProbe, Optional
  <1>5. DOMAIN EstablishSession = {"r_begin", "r_finish"} /\ InScript(EstablishSession)
    BY PartDomains, ScriptParts
  <1>6. /\ EstablishSession["r_begin"] = Step("begin", "r_finish", "drop")
        /\ EstablishSession["r_finish"] = Step("finish", "r_config", "drop")
    BY DEF EstablishSession
  <1>7. DOMAIN LoadDeviceConfig = {"r_config"} /\ InScript(LoadDeviceConfig)
    BY PartDomains, ScriptParts
  <1>8. /\ LoadDeviceConfig["r_config"] = Step("config", "serve", "drop")
    BY DEF LoadDeviceConfig
  <1> QED BY <1>1, <1>2, <1>3, <1>4, <1>5, <1>6, <1>7, <1>8 DEF InScript

LEMMA ViaRows ==
    /\ Script["v_proto"] = Step("proto", "v_fw", "no")
    /\ Script["v_fw"] = Step("fw", "v_layers", "v_layers")
    /\ Script["v_layers"] = Step("layers", "found", "no")
    /\ Script["v_enc"] = Step("enc", "v_keys", "v_keys")
    /\ Script["v_keys"] = Step("keys", "serve", "throw")
  <1>1. DOMAIN ViaProbe = {"v_proto", "v_fw", "v_layers"} /\ InScript(ViaProbe)
    BY PartDomains, ScriptParts
  <1>2. /\ ViaProbe["v_proto"] = Step("proto", "v_fw", "no")
        /\ ViaProbe["v_fw"] = Step("fw", "v_layers", "v_layers")
        /\ ViaProbe["v_layers"] = Step("layers", "found", "no")
    BY DEF ViaProbe, Optional
  <1>3. DOMAIN ViaCreate = {"v_enc", "v_keys"} /\ InScript(ViaCreate)
    BY PartDomains, ScriptParts
  <1>4. /\ ViaCreate["v_enc"] = Step("enc", "v_keys", "v_keys")
        /\ ViaCreate["v_keys"] = Step("keys", "serve", "throw")
    BY DEF ViaCreate, Optional
  <1> QED BY <1>1, <1>2, <1>3, <1>4 DEF InScript

LEMMA VialRows ==
    /\ Script["l_proto"] = Step("proto", "l_id", "no")
    /\ Script["l_id"] = Step("kbid", "found", "no")
    /\ Script["l_def"] = Step("def", "l_fw", "f_layers")
    /\ Script["l_fw"] = Step("fw", "l_layers", "l_layers")
    /\ Script["l_layers"] = Step("layers", "l_keys", "f_layers")
    /\ Script["l_keys"] = Step("keys", "serve", "throw")
    /\ Script["f_layers"] = Step("layers", "saved", "drop")
    /\ Script["f_saved"] = Step("keys", "serve", "drop")
    /\ Script["f_enc"] = Step("enc", "f_keys", "f_keys")
    /\ Script["f_keys"] = Step("keys", "serve", "drop")
  <1>1. DOMAIN IdentifyVial = {"l_proto", "l_id"} /\ InScript(IdentifyVial)
    BY PartDomains, ScriptParts
  <1>2. /\ IdentifyVial["l_proto"] = Step("proto", "l_id", "no")
        /\ IdentifyVial["l_id"] = Step("kbid", "found", "no")
    BY DEF IdentifyVial
  <1>3. DOMAIN LoadVial = {"l_def", "l_fw", "l_layers"} /\ InScript(LoadVial)
    BY PartDomains, ScriptParts
  <1>4. /\ LoadVial["l_def"] = Step("def", "l_fw", "f_layers")
        /\ LoadVial["l_fw"] = Step("fw", "l_layers", "l_layers")
        /\ LoadVial["l_layers"] = Step("layers", "l_keys", "f_layers")
    BY DEF LoadVial, Optional
  <1>5. DOMAIN VialCreate = {"l_keys"} /\ InScript(VialCreate)
    BY PartDomains, ScriptParts
  <1>6. /\ VialCreate["l_keys"] = Step("keys", "serve", "throw")
    BY DEF VialCreate
  <1>7. /\ DOMAIN ConnectWithoutDeviceDef = {"f_layers", "f_saved", "f_enc", "f_keys"}
        /\ InScript(ConnectWithoutDeviceDef)
    BY PartDomains, ScriptParts
  <1>8. /\ ConnectWithoutDeviceDef["f_layers"] = Step("layers", "saved", "drop")
        /\ ConnectWithoutDeviceDef["f_saved"] = Step("keys", "serve", "drop")
        /\ ConnectWithoutDeviceDef["f_enc"] = Step("enc", "f_keys", "f_keys")
        /\ ConnectWithoutDeviceDef["f_keys"] = Step("keys", "serve", "drop")
    BY DEF ConnectWithoutDeviceDef, Optional
  <1> QED BY <1>1, <1>2, <1>3, <1>4, <1>5, <1>6, <1>7, <1>8 DEF InScript

LEMMA KeychronRows ==
    /\ Script["k_proto"] = Step("kproto", "k_fw", "no")
    /\ Script["k_fw"] = Step("kfw", "k_feat", "k_feat")
    /\ Script["k_feat"] = Step("kfeat", "k_misc", "k_misc")
    /\ Script["k_misc"] = Step("kmisc", "k_layers", "k_layers")
    /\ Script["k_layers"] = Step("layers", "found", "no")
    /\ Script["k_led"] = Step("kled", "k_default", "k_default")
    /\ Script["k_default"] = Step("kdefault", "k_enc", "k_enc")
    /\ Script["k_enc"] = Step("enc", "k_keys", "k_keys")
    /\ Script["k_keys"] = Step("keys", "serve", "throw")
  <1>1. DOMAIN KeychronProbe = 
                {"k_proto", "k_fw", "k_feat", "k_misc", "k_layers"}
        /\ InScript(KeychronProbe)
    BY PartDomains, ScriptParts
  <1>2. /\ KeychronProbe["k_proto"] = Step("kproto", "k_fw", "no")
        /\ KeychronProbe["k_fw"] = Step("kfw", "k_feat", "k_feat")
        /\ KeychronProbe["k_feat"] = Step("kfeat", "k_misc", "k_misc")
        /\ KeychronProbe["k_misc"] = Step("kmisc", "k_layers", "k_layers")
        /\ KeychronProbe["k_layers"] = Step("layers", "found", "no")
    BY DEF KeychronProbe, Optional
  <1>3. DOMAIN KeychronConnect = {"k_led", "k_default", "k_enc", "k_keys"} /\ InScript(KeychronConnect)
    BY PartDomains, ScriptParts
  <1>4. /\ KeychronConnect["k_led"] = Step("kled", "k_default", "k_default")
        /\ KeychronConnect["k_default"] = Step("kdefault", "k_enc", "k_enc")
        /\ KeychronConnect["k_enc"] = Step("enc", "k_keys", "k_keys")
        /\ KeychronConnect["k_keys"] = Step("keys", "serve", "throw")
    BY DEF KeychronConnect, Optional
  <1> QED BY <1>1, <1>2, <1>3, <1>4 DEF InScript

LEMMA ZmkRows ==
    /\ Script["z_info"] = Step("zinfo", "found", "no")
  <1>1. DOMAIN ZmkProbe = {"z_info"} /\ InScript(ZmkProbe)
    BY PartDomains, ScriptParts
  <1>2. /\ ZmkProbe["z_info"] = Step("zinfo", "found", "no")
    BY DEF ZmkProbe
  <1> QED BY <1>1, <1>2 DEF InScript

\* The steps of a probe, and those that follow it in a connect.
ProbeSteps(a) ==
    CASE a = "remappr"  -> DOMAIN Discover \cup DOMAIN RemapprProbe
      [] a = "via"      -> DOMAIN ViaProbe
      [] a = "vial"     -> DOMAIN IdentifyVial
      [] a = "keychron" -> DOMAIN KeychronProbe
      [] OTHER          -> DOMAIN ZmkProbe

ServeSteps(a) ==
    CASE a = "remappr"  -> DOMAIN EstablishSession \cup DOMAIN LoadDeviceConfig
      [] a = "via"      -> DOMAIN ViaCreate
      [] a = "vial"     -> DOMAIN LoadVial \cup DOMAIN VialCreate
                           \cup DOMAIN ConnectWithoutDeviceDef
      [] a = "keychron" -> DOMAIN KeychronConnect
      [] OTHER          -> {}

LEMMA ScriptSets ==
    /\ ProbeSteps("remappr") = {"r_info", "r_uinfo", "r_pers",
                       "r_limits", "r_nodes", "r_caps"}
    /\ ProbeSteps("via") = {"v_proto", "v_fw", "v_layers"}
    /\ ProbeSteps("vial") = {"l_proto", "l_id"}
    /\ ProbeSteps("keychron") = {"k_proto", "k_fw", "k_feat", "k_misc", "k_layers"}
    /\ ProbeSteps("zmk") = {"z_info"}
    /\ ServeSteps("remappr") = {"r_begin", "r_finish", "r_config"}
    /\ ServeSteps("via") = {"v_enc", "v_keys"}
    /\ ServeSteps("vial") = {"l_def", "l_fw", "l_layers", "l_keys",
                       "f_layers", "f_saved", "f_enc", "f_keys"}
    /\ ServeSteps("keychron") = {"k_led", "k_default", "k_enc", "k_keys"}
    /\ ServeSteps("zmk") = {}
    /\ \A a \in Adapters : ProbeSteps(a) \subseteq Steps /\ ServeSteps(a) \subseteq Steps
    /\ \A s \in Steps : \E a \in Adapters : s \in ProbeSteps(a) \cup ServeSteps(a)
  <1>1. ProbeSteps("remappr") = 
          {"r_info", "r_uinfo", "r_pers", "r_limits", "r_nodes", "r_caps"}
    BY PartDomains DEF ProbeSteps
  <1>2. ProbeSteps("via") = {"v_proto", "v_fw", "v_layers"}
    BY PartDomains DEF ProbeSteps
  <1>3. ProbeSteps("vial") = {"l_proto", "l_id"}
    BY PartDomains DEF ProbeSteps
  <1>4. ProbeSteps("keychron") = {"k_proto", "k_fw", "k_feat", "k_misc", "k_layers"}
    BY PartDomains DEF ProbeSteps
  <1>5. ProbeSteps("zmk") = {"z_info"}
    BY PartDomains DEF ProbeSteps
  <1>6. ServeSteps("remappr") = {"r_begin", "r_finish", "r_config"}
    BY PartDomains DEF ServeSteps
  <1>7. ServeSteps("via") = {"v_enc", "v_keys"}
    BY PartDomains DEF ServeSteps
  <1>8. ServeSteps("vial") = 
          {"l_def", "l_fw", "l_layers", "l_keys", "f_layers", "f_saved", "f_enc", "f_keys"}
    BY PartDomains DEF ServeSteps
  <1>9. ServeSteps("keychron") = {"k_led", "k_default", "k_enc", "k_keys"}
    BY PartDomains DEF ServeSteps
  <1>10. ServeSteps("zmk") = {}
    BY PartDomains DEF ServeSteps
  <1>11. \A a \in Adapters : ProbeSteps(a) \subseteq Steps /\ ServeSteps(a) \subseteq Steps
    BY ScriptParts DEF ProbeSteps, ServeSteps
  <1>12. \A s \in Steps : \E a \in Adapters : s \in ProbeSteps(a) \cup ServeSteps(a)
    <2> SUFFICES ASSUME NEW s \in Steps
                 PROVE  \E a \in Adapters : s \in ProbeSteps(a) \cup ServeSteps(a)
      OBVIOUS
    <2>1. CASE s \in DOMAIN Discover \cup DOMAIN RemapprProbe
                        \cup DOMAIN EstablishSession \cup DOMAIN LoadDeviceConfig
      <3>1. s \in ProbeSteps("remappr") \cup ServeSteps("remappr") /\ "remappr" \in Adapters
        BY <2>1 DEF ProbeSteps, ServeSteps, Adapters
      <3> QED BY <3>1
    <2>2. CASE s \in DOMAIN ViaProbe \cup DOMAIN ViaCreate
      <3>1. s \in ProbeSteps("via") \cup ServeSteps("via") /\ "via" \in Adapters
        BY <2>2 DEF ProbeSteps, ServeSteps, Adapters
      <3> QED BY <3>1
    <2>3. CASE s \in DOMAIN IdentifyVial \cup DOMAIN LoadVial
                        \cup DOMAIN VialCreate \cup DOMAIN ConnectWithoutDeviceDef
      <3>1. s \in ProbeSteps("vial") \cup ServeSteps("vial") /\ "vial" \in Adapters
        BY <2>3 DEF ProbeSteps, ServeSteps, Adapters
      <3> QED BY <3>1
    <2>4. CASE s \in DOMAIN KeychronProbe \cup DOMAIN KeychronConnect
      <3>1. s \in ProbeSteps("keychron") \cup ServeSteps("keychron") /\ "keychron" \in Adapters
        BY <2>4 DEF ProbeSteps, ServeSteps, Adapters
      <3> QED BY <3>1
    <2>5. CASE s \in DOMAIN ZmkProbe
      <3>1. s \in ProbeSteps("zmk") \cup ServeSteps("zmk") /\ "zmk" \in Adapters
        BY <2>5 DEF ProbeSteps, ServeSteps, Adapters
      <3> QED BY <3>1
    <2> QED BY <2>1, <2>2, <2>3, <2>4, <2>5, ScriptParts
  <1> QED BY <1>1, <1>2, <1>3, <1>4, <1>5, <1>6, <1>7, <1>8, <1>9, <1>10, <1>11, <1>12

\* Where a probe's exchange leads, and how it can have gone.
ProbeGoes(a, s, good) ==
    LET next == Goes(s, good) IN
    /\ next \in ProbeSteps(a) \cup {"found", "no"}
    /\ next = "found" => good \/ s \in {"r_limits", "r_caps"}
    /\ next = "no" => ~good /\ Script[s].fail = "no"
    /\ next = "r_uinfo" => ~good /\ s = "r_info"
    /\ next = "r_nodes" => ~good /\ s = "r_uinfo"
    /\ next = "r_pers" => good /\ "pers" \in Says(setup.board) /\ s \in {"r_info", "r_uinfo"}

\* The same of the exchanges that follow it.
ServeGoes(a, s, good) ==
    LET next == Goes(s, good) IN
    /\ next \in (ServeSteps(a) \ {"r_begin"}) \cup {"serve", "drop", "throw"}
    /\ next = "serve" => good
    /\ next = "drop" => ~good
    /\ next = "throw" => s \in {"v_keys", "l_keys", "k_keys"}
    /\ next = "r_finish" => good /\ s = "r_begin"
    /\ next = "r_config" => good /\ s = "r_finish"
    /\ next \in DOMAIN ConnectWithoutDeviceDef =>
           \/ s \in DOMAIN ConnectWithoutDeviceDef
           \/ ~good /\ s \in {"l_def", "l_layers"}

LEMMA ProbeGoing ==
    ASSUME NEW a \in Adapters, NEW s \in ProbeSteps(a), NEW good \in BOOLEAN
    PROVE  ProbeGoes(a, s, good)
  <1>1. CASE a = "remappr"
    <2>1. s \in {"r_info", "r_uinfo", "r_pers", "r_limits", "r_nodes", "r_caps"}
      BY <1>1, ScriptSets
    <2>2. CASE s \in {"r_info", "r_uinfo"}
      <3>1. Goes(s, good) = IF good THEN (IF "pers" \in Says(setup.board) THEN "r_pers" ELSE "r_caps")
                            ELSE (IF s = "r_info" THEN "r_uinfo" ELSE "r_nodes")
        BY <2>2, RemapprRows DEF Goes, Step
      <3> QED BY <1>1, <2>2, <3>1, ScriptSets DEF ProbeGoes
    <2>3. CASE s \in {"r_pers", "r_limits"}
      BY <1>1, <2>3, RemapprRows, ScriptSets DEF ProbeGoes, Goes, Step
    <2>4. CASE s \in {"r_nodes", "r_caps"}
      BY <1>1, <2>4, RemapprRows, ScriptSets DEF ProbeGoes, Goes, Step
    <2> QED BY <2>1, <2>2, <2>3, <2>4
  <1>2. CASE a = "via"
    <2>1. s \in {"v_proto", "v_fw", "v_layers"}
      BY <1>2, ScriptSets
    <2> QED BY <1>2, <2>1, ViaRows, ScriptSets DEF ProbeGoes, Goes, Step
  <1>3. CASE a = "vial"
    <2>1. s \in {"l_proto", "l_id"}
      BY <1>3, ScriptSets
    <2> QED BY <1>3, <2>1, VialRows, ScriptSets DEF ProbeGoes, Goes, Step
  <1>4. CASE a = "keychron"
    <2>1. s \in {"k_proto", "k_fw", "k_feat", "k_misc", "k_layers"}
      BY <1>4, ScriptSets
    <2> QED BY <1>4, <2>1, KeychronRows, ScriptSets DEF ProbeGoes, Goes, Step
  <1>5. CASE a = "zmk"
    <2>1. s = "z_info"
      BY <1>5, ScriptSets
    <2> QED BY <1>5, <2>1, ZmkRows, ScriptSets DEF ProbeGoes, Goes, Step
  <1> QED BY <1>1, <1>2, <1>3, <1>4, <1>5 DEF Adapters

LEMMA ServeGoing ==
    ASSUME NEW a \in Adapters, NEW s \in ServeSteps(a), NEW good \in BOOLEAN
    PROVE  ServeGoes(a, s, good)
  <1>0. DOMAIN ConnectWithoutDeviceDef = {"f_layers", "f_saved", "f_enc", "f_keys"}
    BY PartDomains
  <1>1. CASE a = "remappr"
    <2>1. s \in {"r_begin", "r_finish", "r_config"}
      BY <1>1, ScriptSets
    <2> QED BY <1>0, <1>1, <2>1, RemapprRows, ScriptSets DEF ServeGoes, Goes, Step
  <1>2. CASE a = "via"
    <2>1. s \in {"v_enc", "v_keys"}
      BY <1>2, ScriptSets
    <2> QED BY <1>0, <1>2, <2>1, ViaRows, ScriptSets DEF ServeGoes, Goes, Step
  <1>3. CASE a = "vial"
    <2>1. s \in {"l_def", "l_fw", "l_layers", "l_keys", "f_layers", "f_saved", "f_enc", "f_keys"}
      BY <1>3, ScriptSets
    <2>2. CASE s \in {"l_def", "l_fw", "l_layers", "l_keys"}
      BY <1>0, <1>3, <2>2, VialRows, ScriptSets DEF ServeGoes, Goes, Step
    <2>3. CASE s \in {"f_layers", "f_saved", "f_enc", "f_keys"}
      BY <1>0, <1>3, <2>3, VialRows, ScriptSets DEF ServeGoes, Goes, Step
    <2> QED BY <2>1, <2>2, <2>3
  <1>4. CASE a = "keychron"
    <2>1. s \in {"k_led", "k_default", "k_enc", "k_keys"}
      BY <1>4, ScriptSets
    <2> QED BY <1>0, <1>4, <2>1, KeychronRows, ScriptSets DEF ServeGoes, Goes, Step
  <1>5. CASE a = "zmk"
    BY <1>5, ScriptSets
  <1> QED BY <1>1, <1>2, <1>3, <1>4, <1>5 DEF Adapters

(***************************************************************************)
(* Who holds the streams.                                                  *)
(***************************************************************************)
Holds(c) == cli.user = c /\ cli.by = call[c].who

\* A client is somebody's or the cache's, a raw-HID client is open as long as
\* it is anybody's, and it is the client of the adapter its holder asked.
ClientOK ==
    /\ cli.by = None => cli = NoClient
    /\ cli.by # None => cli.user # None
    /\ cli.by \in RawHid => cli.open
    /\ cli.user = "cache" => cli.open
    /\ \A c \in Callers : cli.user = c => cli.by = call[c].who

Picking(c) ==
    call[c].pc = "pick" =>
        \/ call[c].step = "next" /\ call[c].at >= 1
        \/ call[c].who # None /\ call[c].step \in ProbeSteps(call[c].who) /\ Holds(c) /\ cli.open

\* Before its signal is listened to a connect keeps its client; ZMK's pipes listen
\* to it themselves; afterwards the client may be gone, with the transport.
Probing(c) ==
    /\ call[c].step \in ProbeSteps(call[c].who) /\ Holds(c)
    /\ IF call[c].who = "zmk" THEN call[c].hears = "pipes" ELSE call[c].hears = "no" /\ cli.open

Serving(c) ==
    /\ call[c].step \in ServeSteps(call[c].who) /\ call[c].hears = "yes"
    /\ (Holds(c) /\ cli.open) \/ (cli.user # c /\ aborted)

Connecting(c) == call[c].pc = "conn" => Probing(c) \/ Serving(c)

Kept == {"v_keys", "l_keys", "k_keys", "z_info"}

CallOK(c) ==
    /\ Picking(c) /\ Connecting(c)
    /\ call[c].pc \in {"picked", "conn", "service"} => call[c].who # None
    /\ call[c].pc \in {"idle", "pick", "picked"} => call[c].hears = "no"
    /\ call[c].pc = "service" /\ call[c].who # "zmk" => call[c].hears = "yes"
    /\ cli.user = c =>
           \/ call[c].pc \in {"conn", "service"}
           \/ call[c].pc = "pick" /\ (call[c].step # "next" \/ aborted)
           \/ call[c].pc = "null" /\ aborted
           \/ call[c].pc = "failed" /\ (aborted \/ call[c].step \in Kept)

SettingOK ==
    /\ setup.board \in Boards /\ setup.kind \in {"hid", "ble", "serial"}
    /\ Owner(setup.board) \in RawHid => setup.kind = "hid"
    /\ Owner(setup.board) = "zmk" => setup.kind # "hid"
    /\ KnownHid => /\ Owner(setup.board) = "remappr" => setup.vid = "1209"
                   /\ Owner(setup.board) = "keychron" => setup.vid = "3434"

Held == TypeOK /\ SettingOK /\ ClientOK /\ \A c \in Callers : CallOK(c)

\* What a step of one caller does to the others' clients.
Moved(c) ==
    /\ \A d \in Callers \ {c} :
        /\ call'[d] = call[d]
        /\ cli.user = d \/ cli'.user = d => cli' = cli
    /\ aborted => aborted'
    /\ UNCHANGED setup

LEMMA Bystanders ==
    ASSUME Held, TypeOK', NEW c \in Callers, Moved(c), NEW d \in Callers \ {c}
    PROVE  CallOK(d)' /\ (cli'.user = d => cli'.by = call'[d].who)
  <1>1. CallOK(d) /\ call'[d] = call[d] /\ (cli.user = d \/ cli'.user = d => cli' = cli)
        /\ (aborted => aborted')
    BY DEF Held, Moved
  <1>2. aborted \in BOOLEAN /\ aborted' \in BOOLEAN
    BY DEF Held, TypeOK
  <1>3. Picking(d)'
    BY <1>1 DEF CallOK, Picking, Holds, ProbeSteps
  <1>4. Connecting(d)'
    <2>1. Probing(d) => Probing(d)'
      BY <1>1 DEF Probing, Holds, ProbeSteps
    <2>2. Serving(d) => Serving(d)'
      BY <1>1, <1>2 DEF Serving, Holds, ServeSteps
    <2> QED BY <1>1, <2>1, <2>2 DEF CallOK, Connecting
  <1>5. cli'.user = d => cli'.by = call'[d].who
    BY <1>1 DEF Held, ClientOK
  <1> QED BY <1>1, <1>2, <1>3, <1>4, <1>5 DEF CallOK

\* A step of one caller keeps everything, if it keeps what concerns him.
LEMMA OneMoved ==
    ASSUME Held, TypeOK', NEW c \in Callers, Moved(c), CallOK(c)',
           cli'.by = None => cli' = NoClient, cli'.by # None => cli'.user # None,
           cli'.by \in RawHid => cli'.open, cli'.user = "cache" => cli'.open,
           cli'.user = c => cli'.by = call'[c].who
    PROVE  Held'
  <1>1. \A d \in Callers : CallOK(d)' /\ (cli'.user = d => cli'.by = call'[d].who)
    BY Bystanders
  <1>2. SettingOK'
    BY DEF Held, Moved, SettingOK, KnownHid
  <1>3. ClientOK'
    BY <1>1 DEF ClientOK
  <1> QED BY <1>1, <1>2, <1>3 DEF Held

LEMMA Vocabulary ==
    /\ None = "none" /\ None \notin Adapters /\ None \notin Callers /\ "cache" \notin Callers
    /\ RawHid \subseteq Adapters
    /\ \A a \in Adapters : a \in {"remappr", "vial", "via", "keychron", "zmk"}
  BY CallersAssumption DEF None, Adapters, RawHid

\* After the probe comes the service, or a step that leads to it.
LEMMA AfterProbing ==
    ASSUME NEW cl \in Client, cl.by # None
    PROVE  /\ AfterProbe(cl) \in ServeSteps(cl.by) \cup {"serve"}
           /\ AfterProbe(cl) = "serve" => cl.by = "zmk" \/ (cl.by = "remappr" /\ cl.dongle)
           /\ AfterProbe(cl) \in {"r_begin", "r_finish", "r_config"} => cl.by = "remappr" /\ ~cl.dongle
           /\ AfterProbe(cl) # "r_finish"
           /\ AfterProbe(cl) = "r_config" => cl.caps = "open"
           /\ AfterProbe(cl) \notin DOMAIN ConnectWithoutDeviceDef
  <1>0. DOMAIN ConnectWithoutDeviceDef = {"f_layers", "f_saved", "f_enc", "f_keys"}
    BY PartDomains
  <1>1. cl.by \in {"remappr", "vial", "via", "keychron", "zmk"}
    BY DEF Client, Adapters
  <1>2. CASE cl.by = "remappr"
    <2>1. AfterProbe(cl) = IF cl.dongle THEN "serve"
                           ELSE IF cl.caps = "open" THEN "r_config" ELSE "r_begin"
      <3>1. cl.dongle \in BOOLEAN
        BY DEF Client
      <3> QED BY <1>2, <3>1 DEF AfterProbe
    <2> QED BY <1>0, <1>2, <2>1, ScriptSets
  <1>3. CASE cl.by = "vial"
    BY <1>0, <1>3, ScriptSets DEF AfterProbe
  <1>4. CASE cl.by = "via"
    BY <1>0, <1>4, ScriptSets DEF AfterProbe
  <1>5. CASE cl.by = "keychron"
    BY <1>0, <1>5, ScriptSets DEF AfterProbe
  <1>6. CASE cl.by = "zmk"
    BY <1>0, <1>6, ScriptSets DEF AfterProbe
  <1> QED BY <1>1, <1>2, <1>3, <1>4, <1>5, <1>6

LEMMA ClientTypes ==
    /\ NoClient \in Client /\ NoClient.by = None /\ NoClient.user = None
    /\ \A a \in Adapters, c \in Callers :
          /\ Fresh(a, c) \in Client /\ Fresh(a, c).by = a /\ Fresh(a, c).user = c
          /\ Fresh(a, c).open = TRUE /\ Fresh(a, c).dongle = FALSE /\ Fresh(a, c).caps = None
          /\ Fresh(a, c).orphan = FALSE
    /\ Idle \in Calling
  BY ScriptParts DEF NoClient, Client, Fresh, Idle, Calling, PCs

LEMMA KeyTypes ==
    ASSUME TypeOK
    PROVE  /\ Key \in Nat
           /\ LoadIdentity => ident' \in Identity /\ slipped' \in BOOLEAN
  <1>1. ident \in Identity /\ slipped \in BOOLEAN
    BY DEF TypeOK
  <1>2. Loaded \in Nat /\ Key \in Nat
    BY <1>1 DEF Loaded, Key, Identity
  <1>3. ASSUME LoadIdentity
        PROVE  ident' \in Identity
    <2>1. CASE ident' = ident
      BY <1>1, <2>1
    <2>2. CASE ident' = [ident EXCEPT !.minted = Key, !.cached = Key, !.saving = Key]
      BY <1>1, <1>2, <2>2 DEF Identity
    <2>3. CASE ident' = [ident EXCEPT !.minted = Key, !.mem = Key]
      BY <1>1, <1>2, <2>3 DEF Identity
    <2> QED BY <1>3, <2>1, <2>2, <2>3 DEF LoadIdentity
  <1>4. LoadIdentity => slipped' \in BOOLEAN
    BY <1>1 DEF LoadIdentity
  <1> QED BY <1>2, <1>3, <1>4

\* Entering a connect with a probed client: it is refused, led on, or served.
Entered(c, cl) ==
    \/ /\ call' = [call EXCEPT ![c].pc = "failed", ![c].step = "signal"]
       /\ UNCHANGED <<ident, slipped>>
       /\ \/ cli' = NoClient /\ (aborted => aborted')
          \/ cli' = [cl EXCEPT !.open = FALSE] /\ cl.by = "zmk" /\ aborted'
       /\ aborted' \in BOOLEAN
    \/ /\ AfterProbe(cl) = "serve"
       /\ UNCHANGED <<ident, slipped, aborted>> /\ cli' = cl
       /\ \E h \in {"pipes", "yes"} :
            /\ h = "pipes" => call[c].hears = "pipes"
            /\ call' = [call EXCEPT ![c].pc = "service", ![c].step = "serve", ![c].hears = h,
                                 ![c].svc = IF cl.by = "zmk" THEN "zmk" ELSE "dongle"]
    \/ /\ AfterProbe(cl) # "serve" /\ UNCHANGED aborted
       /\ IF AfterProbe(cl) = "r_begin" THEN LoadIdentity /\ cli' = [cl EXCEPT !.key = Key]
                                        ELSE UNCHANGED <<ident, slipped>> /\ cli' = cl
       /\ \E h \in {"pipes", "yes"} :
            /\ h = "pipes" => call[c].hears = "pipes"
            /\ call' = [call EXCEPT ![c].pc = "conn", ![c].step = AfterProbe(cl), ![c].hears = h]

LEMMA Entering ==
    ASSUME TypeOK, NEW c \in Callers, NEW cl \in Client, cl.by # None,
           cl.by \in RawHid => cl.open, Enter(c, cl)
    PROVE  Entered(c, cl)
  <1>1. call \in [Callers -> Calling] /\ aborted \in BOOLEAN
    BY DEF TypeOK
  <1>2. cl.by \in {"remappr", "vial", "via", "keychron", "zmk"} /\ cl.open \in BOOLEAN
    BY DEF Client, Adapters
  <1>3. CASE call[c].sig /\ cl.by # None /\ ~(cl.by = "zmk" /\ call[c].hears = "pipes")
    <2>1. CASE cl.by \in {"via", "keychron"}
      BY <1>1, <1>3, <2>1 DEF Enter, Entered, RawHid
    <2>2. CASE cl.by = "vial"
      BY <1>1, <1>3, <2>2 DEF Enter, Entered, RawHid
    <2>3. CASE cl.by = "remappr"
      BY <1>1, <1>3, <2>3 DEF Enter, Entered
    <2>4. CASE cl.by = "zmk"
      BY <1>1, <1>3, <2>4 DEF Enter, Entered
    <2> QED BY <1>2, <2>1, <2>2, <2>3, <2>4
  <1>4. CASE ~(call[c].sig /\ cl.by # None /\ ~(cl.by = "zmk" /\ call[c].hears = "pipes"))
    <2> DEFINE s == AfterProbe(cl)
    <2>1. /\ IF s = "r_begin" THEN LoadIdentity ELSE UNCHANGED <<ident, slipped>>
          /\ cli' = IF s = "r_begin" THEN [cl EXCEPT !.key = Key] ELSE cl
          /\ UNCHANGED aborted
          /\ call' = [call EXCEPT ![c].pc = IF s = "serve" THEN "service" ELSE "conn",
                                  ![c].step = s,
                                  ![c].hears = IF @ = "pipes" THEN @ ELSE "yes",
                                  ![c].svc = IF s = "serve"
                                             THEN (IF cl.by = "zmk" THEN "zmk" ELSE "dongle")
                                             ELSE @]
      BY <1>4 DEF Enter
    <2>2. PICK h \in {"pipes", "yes"} : h = IF call[c].hears = "pipes" THEN call[c].hears ELSE "yes"
      OBVIOUS
    <2>3. CASE s = "serve"
      <3>1. call' = [call EXCEPT ![c].pc = "service", ![c].step = "serve", ![c].hears = h,
                                 ![c].svc = IF cl.by = "zmk" THEN "zmk" ELSE "dongle"]
        BY <1>1, <2>1, <2>2, <2>3
      <3> QED BY <2>1, <2>2, <2>3, <3>1 DEF Entered
    <2>4. CASE s # "serve"
      <3>1. call' = [call EXCEPT ![c].pc = "conn", ![c].step = s, ![c].hears = h]
        BY <1>1, <2>1, <2>2, <2>4 DEF Calling
      <3> QED BY <2>1, <2>2, <2>4, <3>1 DEF Entered
    <2> QED BY <2>3, <2>4
  <1> QED BY <1>3, <1>4

LEMMA Owners == \A b \in Boards : Owner(b) \in Adapters
  BY DEF Boards, Owner, Adapters

LEMMA PickHolds ==
    ASSUME Held, NEW c \in Callers, Pick(c) \/ Name(c)
    PROVE  Held'
  <1>1. call \in [Callers -> Calling] /\ cli \in Client
    BY DEF Held, TypeOK
  <1>2. Owner(setup.board) \in Adapters
    BY Owners DEF Held, SettingOK
  <1>3. PICK n \in Calling : /\ call' = [call EXCEPT ![c] = n]
                             /\ n.hears = call[c].hears /\ n.pc \in {"pick", "picked"}
                             /\ n.pc = "pick" => n.step = "next" /\ n.at = 1
                             /\ n.pc = "picked" => n.who # None
    <2>1. CASE Pick(c)
      <3>1. PICK n : n = [call[c] EXCEPT !.pc = "pick", !.at = 1, !.step = "next"]
        OBVIOUS
      <3>2. n \in Calling /\ n.hears = call[c].hears /\ n.pc = "pick" /\ n.step = "next" /\ n.at = 1
        BY <1>1, <3>1 DEF Calling, PCs
      <3>3. call' = [call EXCEPT ![c] = n]
        BY <1>1, <2>1, <3>1 DEF Pick
      <3> QED BY <3>2, <3>3
    <2>2. CASE Name(c)
      <3>1. PICK n : n = [call[c] EXCEPT !.pc = "picked", !.who = Owner(setup.board)]
        OBVIOUS
      <3>2. n \in Calling /\ n.hears = call[c].hears /\ n.pc = "picked" /\ n.who = Owner(setup.board)
        BY <1>1, <1>2, <3>1 DEF Calling, PCs
      <3>3. call' = [call EXCEPT ![c] = n]
        BY <1>1, <2>2, <3>1 DEF Name
      <3> QED BY <1>2, <3>2, <3>3, Vocabulary
    <2> QED BY <2>1, <2>2
  <1>4. call[c].pc = "idle"
        /\ UNCHANGED <<setup, order, transportVars, ident, rounds, faults, historyVars>>
    BY DEF Pick, Name
  <1>5. call' \in [Callers -> Calling] /\ call'[c] = n /\ \A d \in Callers \ {c} : call'[d] = call[d]
    BY <1>1, <1>3
  <1>6. TypeOK'
    BY <1>4, <1>5 DEF Held, TypeOK, transportVars, historyVars
  <1>7. cli' = cli /\ aborted' = aborted /\ setup' = setup
    BY <1>4 DEF transportVars
  <1>8. CallOK(c) /\ cli.user # c
    BY <1>4 DEF Held, CallOK
  <1>9. CallOK(c)'
    BY <1>3, <1>4, <1>5, <1>7, <1>8 DEF CallOK, Picking, Connecting
  <1>10. Moved(c)
    BY <1>5, <1>7 DEF Moved
  <1>11. ClientOK
    BY DEF Held
  <1> QED BY <1>6, <1>7, <1>8, <1>9, <1>10, <1>11, OneMoved DEF ClientOK

LEMMA FirstSteps == \A a \in Adapters : First(a) \in ProbeSteps(a)
  BY ScriptSets DEF First, Adapters

LEMMA TryHolds ==
    ASSUME Held, NEW c \in Callers, TryNext(c)
    PROVE  Held'
  <1>1. /\ call \in [Callers -> Calling] /\ cli \in Client /\ order \in Seq(Adapters)
        /\ call[c] \in Calling /\ astray \in BOOLEAN
    BY DEF Held, TypeOK
  <1>2. call[c].pc = "pick" /\ call[c].step = "next"
        /\ UNCHANGED <<setup, order, aborted, stale, missed, ident, rounds, faults, historyVars>>
    BY DEF TryNext
  <1>3. CallOK(c) /\ ClientOK
    BY DEF Held
  <1>4. call[c].at \in Nat /\ call[c].at >= 1 /\ (cli.user = c => aborted)
    <2>1. "next" \notin Steps
      BY PartDomains, ScriptParts
    <2>2. \A a \in Adapters : "next" \notin ProbeSteps(a)
      BY <2>1, ScriptSets
    <2>3. call[c].who \in Adapters \cup {None}
      BY <1>1 DEF Calling
    <2>4. call[c].at >= 1
      BY <1>2, <1>3, <2>2, <2>3 DEF CallOK, Picking
    <2> QED BY <1>1, <1>2, <1>3, <2>4 DEF Calling, CallOK
  <1>5. ASSUME call' \in [Callers -> Calling], cli' \in Client, astray' \in BOOLEAN,
               \A d \in Callers \ {c} : call'[d] = call[d], CallOK(c)',
               \/ cli' = cli
               \/ cli.by = None /\ \E a \in Adapters : cli' = Fresh(a, c) /\ call'[c].who = a,
               cli' = cli /\ cli.user = c => call'[c].who = call[c].who
        PROVE  Held'
    <2>1. TypeOK'
      BY <1>2, <1>5 DEF Held, TypeOK, historyVars
    <2>2. CASE cli' = cli
      <3>1. Moved(c)
        BY <1>2, <1>5, <2>2 DEF Moved
      <3> QED BY <1>3, <1>5, <2>1, <2>2, <3>1, OneMoved DEF ClientOK
    <2>3. CASE cli.by = None /\ \E a \in Adapters : cli' = Fresh(a, c) /\ call'[c].who = a
      <3>1. PICK a \in Adapters : cli' = Fresh(a, c) /\ call'[c].who = a
        BY <2>3
      <3>2. cli'.by = a /\ cli'.user = c /\ cli'.open = TRUE
        BY <3>1, ClientTypes
      <3>3. cli.user = None
        BY <1>3, <2>3, ClientTypes DEF ClientOK
      <3>4. Moved(c)
        BY <1>2, <1>5, <3>2, <3>3, Vocabulary DEF Moved
      <3> QED BY <1>5, <2>1, <3>1, <3>2, <3>4, OneMoved, Vocabulary
    <2> QED BY <1>5, <2>2, <2>3
  <1>6. CASE call[c].at > Len(order)
    <2>1. call' = [call EXCEPT ![c].pc = "null"] /\ UNCHANGED <<cli, astray>>
      BY <1>6 DEF TryNext
    <2>2. call' \in [Callers -> Calling] /\ call'[c].pc = "null" /\ call'[c].who = call[c].who
          /\ \A d \in Callers \ {c} : call'[d] = call[d]
      BY <1>1, <2>1 DEF Calling, PCs
    <2>3. CallOK(c)'
      BY <1>2, <1>4, <2>1, <2>2 DEF CallOK, Picking, Connecting
    <2> QED BY <1>1, <1>5, <2>1, <2>2, <2>3
  <1>7. CASE ~(call[c].at > Len(order))
    <2>1. PICK a : a = order[call[c].at]
      OBVIOUS
    <2>2. a \in Adapters
      BY <1>1, <1>4, <1>7, <2>1
    <2> DEFINE skipped == [call EXCEPT ![c].at = @ + 1]
    <2>3. \/ /\ call' = skipped /\ UNCHANGED cli /\ astray' \in BOOLEAN
          \/ /\ Cached(a)
             /\ call' = [call EXCEPT ![c].pc = "picked", ![c].who = a]
             /\ UNCHANGED <<cli, astray>>
          \/ /\ cli.by = None
             /\ cli' = Fresh(a, c)
             /\ call' = [call EXCEPT ![c].step = First(a), ![c].who = a]
             /\ UNCHANGED astray
      BY <1>1, <1>7, <2>1 DEF TryNext
    <2>4. CASE call' = skipped /\ UNCHANGED cli /\ astray' \in BOOLEAN
      <3>1. PICK m \in Nat : m = call[c].at + 1 /\ m >= 1
        BY <1>4
      <3>2. call' = [call EXCEPT ![c] = [call[c] EXCEPT !.at = m]]
        BY <1>1, <2>4, <3>1
      <3>3. call' \in [Callers -> Calling] /\ call'[c] = [call[c] EXCEPT !.at = m]
            /\ \A d \in Callers \ {c} : call'[d] = call[d]
        BY <1>1, <3>2 DEF Calling
      <3>4. call'[c].pc = "pick" /\ call'[c].step = "next" /\ call'[c].at >= 1
            /\ call'[c].who = call[c].who /\ call'[c].hears = call[c].hears
        BY <1>1, <1>2, <3>1, <3>3 DEF Calling
      <3>5. CallOK(c)'
        BY <1>2, <1>3, <1>4, <2>4, <3>4 DEF CallOK, Picking, Connecting
      <3> QED BY <1>1, <1>5, <2>4, <3>3, <3>4, <3>5
    <2>5. CASE Cached(a) /\ call' = [call EXCEPT ![c].pc = "picked", ![c].who = a]
               /\ UNCHANGED <<cli, astray>>
      <3>1. call' \in [Callers -> Calling] /\ call'[c].pc = "picked" /\ call'[c].who = a
            /\ call'[c].hears = call[c].hears
            /\ \A d \in Callers \ {c} : call'[d] = call[d]
        BY <1>1, <2>2, <2>5 DEF Calling, PCs
      <3>2. cli.user # c
        BY <2>5, Vocabulary DEF Cached
      <3>3. CallOK(c)'
        BY <1>2, <1>3, <2>2, <2>5, <3>1, <3>2, Vocabulary DEF CallOK, Picking, Connecting
      <3> QED BY <1>1, <1>5, <2>5, <3>1, <3>2, <3>3
    <2>6. CASE /\ cli.by = None /\ cli' = Fresh(a, c) /\ UNCHANGED astray
               /\ call' = [call EXCEPT ![c].step = First(a), ![c].who = a]
      <3>1. First(a) \in ProbeSteps(a) /\ First(a) \in Steps
        BY <2>2, FirstSteps, ScriptSets
      <3>2. call' \in [Callers -> Calling] /\ call'[c].pc = "pick" /\ call'[c].who = a
            /\ call'[c].step = First(a) /\ call'[c].hears = call[c].hears
            /\ \A d \in Callers \ {c} : call'[d] = call[d]
        BY <1>1, <1>2, <2>2, <2>6, <3>1 DEF Calling
      <3>3. cli'.by = a /\ cli'.user = c /\ cli'.open = TRUE /\ cli' \in Client
        BY <2>2, <2>6, ClientTypes
      <3>4. First(a) # "next"
        BY <3>1, PartDomains, ScriptParts
      <3>5. CallOK(c)'
        BY <1>2, <1>3, <2>2, <3>1, <3>2, <3>3, <3>4, Vocabulary
        DEF CallOK, Picking, Connecting, Holds, ProbeSteps
      <3> QED BY <1>1, <1>5, <2>2, <2>6, <3>2, <3>3, <3>5, Vocabulary
    <2> QED BY <2>3, <2>4, <2>5, <2>6
  <1> QED BY <1>6, <1>7

LEMMA EnteredHolds ==
    ASSUME Held, NEW c \in Callers, NEW cl \in Client, Entered(c, cl),
           cl.by # None, cl.user = c, cl.by = call[c].who, cl.by \in RawHid => cl.open,
           call[c].pc \in {"picked", "conn"},
           call[c].hears = "pipes" => call[c].who = "zmk",
           call[c].who # "zmk" => cl.open,
           \A d \in Callers \ {c} : cli.user # d,
           UNCHANGED <<setup, order, rounds, faults>>,
           missed' \in 0..MaxMissed, astray' \in BOOLEAN, barred' \in BOOLEAN
    PROVE  Held'
  <1>1. call \in [Callers -> Calling] /\ call[c] \in Calling /\ aborted \in BOOLEAN
        /\ ident \in Identity /\ slipped \in BOOLEAN
    BY DEF Held, TypeOK
  <1>2. cl.by \in Adapters /\ AfterProbe(cl) \in ServeSteps(cl.by) \cup {"serve"}
    BY AfterProbing DEF Client
  <1>3. ASSUME call' \in [Callers -> Calling], cli' \in Client, aborted' \in BOOLEAN,
               ident' \in Identity, slipped' \in BOOLEAN, aborted => aborted',
               \A d \in Callers \ {c} : call'[d] = call[d], CallOK(c)',
               call'[c].who = call[c].who,
               cli' = NoClient \/ (cli'.user = c /\ cli'.by = cl.by /\ (cl.by \in RawHid => cli'.open))
        PROVE  Held'
    <2>1. TypeOK'
      BY <1>3 DEF Held, TypeOK
    <2>2. \A d \in Callers \ {c} : cli'.user # d
      BY <1>3, ClientTypes, Vocabulary
    <2>3. Moved(c)
      BY <1>3, <2>2 DEF Moved
    <2>4. CASE cli' = NoClient
      <3>1. NoClient.by \notin RawHid /\ NoClient.user # "cache" /\ NoClient.user # c
        BY ClientTypes, Vocabulary
      <3> QED BY <1>3, <2>1, <2>3, <2>4, <3>1, ClientTypes, OneMoved
    <2>5. CASE cli'.user = c /\ cli'.by = cl.by /\ (cl.by \in RawHid => cli'.open)
      <3>1. c # "cache" /\ c # None
        BY Vocabulary
      <3> QED BY <1>3, <2>1, <2>3, <2>5, <3>1, OneMoved
    <2> QED BY <1>3, <2>4, <2>5
  <1>4. CASE /\ call' = [call EXCEPT ![c].pc = "failed", ![c].step = "signal"]
             /\ UNCHANGED <<ident, slipped>>
             /\ \/ cli' = NoClient /\ (aborted => aborted')
                \/ cli' = [cl EXCEPT !.open = FALSE] /\ cl.by = "zmk" /\ aborted'
             /\ aborted' \in BOOLEAN
    <2>1. call' \in [Callers -> Calling] /\ call'[c].pc = "failed" /\ call'[c].who = call[c].who
          /\ \A d \in Callers \ {c} : call'[d] = call[d]
      BY <1>1, <1>4 DEF Calling, PCs
    <2>2. CASE cli' = NoClient /\ (aborted => aborted')
      <3>1. cli' \in Client /\ cli'.user # c
        BY <2>2, ClientTypes, Vocabulary
      <3>2. CallOK(c)'
        BY <2>1, <3>1 DEF CallOK, Picking, Connecting
      <3> QED BY <1>1, <1>3, <1>4, <2>1, <2>2, <3>1, <3>2
    <2>3. CASE cli' = [cl EXCEPT !.open = FALSE] /\ cl.by = "zmk" /\ aborted'
      <3>1. cli' \in Client /\ cli'.user = c /\ cli'.by = cl.by /\ cl.by \notin RawHid
        BY <2>3 DEF Client, RawHid
      <3>2. CallOK(c)'
        BY <2>1, <2>3 DEF CallOK, Picking, Connecting
      <3> QED BY <1>1, <1>3, <1>4, <2>1, <2>3, <3>1, <3>2
    <2> QED BY <1>4, <2>2, <2>3
  <1>5. CASE /\ AfterProbe(cl) = "serve"
             /\ UNCHANGED <<ident, slipped, aborted>> /\ cli' = cl
             /\ \E h \in {"pipes", "yes"} :
                  /\ h = "pipes" => call[c].hears = "pipes"
                  /\ call' = [call EXCEPT ![c].pc = "service", ![c].step = "serve", ![c].hears = h,
                                       ![c].svc = IF cl.by = "zmk" THEN "zmk" ELSE "dongle"]
    <2>1. PICK h \in {"pipes", "yes"} :
                  /\ h = "pipes" => call[c].hears = "pipes"
                  /\ call' = [call EXCEPT ![c].pc = "service", ![c].step = "serve", ![c].hears = h,
                                       ![c].svc = IF cl.by = "zmk" THEN "zmk" ELSE "dongle"]
      BY <1>5
    <2> DEFINE v == IF cl.by = "zmk" THEN "zmk" ELSE "dongle"
    <2>10. v \in Adapters \cup {"dongle", None}
      BY DEF Adapters
    <2> HIDE DEF v
    <2>2. PICK n : n = [call[c] EXCEPT !.pc = "service", !.step = "serve", !.hears = h, !.svc = v]
      OBVIOUS
    <2>3. n \in Calling /\ n.pc = "service" /\ n.hears = h /\ n.who = call[c].who
      BY <1>1, <2>2, <2>10 DEF Calling, PCs
    <2>4. call' = [call EXCEPT ![c] = n]
      BY <1>1, <2>1, <2>2 DEF v
    <2>5. call' \in [Callers -> Calling] /\ call'[c] = n /\ \A d \in Callers \ {c} : call'[d] = call[d]
      BY <1>1, <2>3, <2>4
    <2>6. CallOK(c)'
      BY <1>2, <2>1, <2>3, <2>5, Vocabulary DEF CallOK, Picking, Connecting
    <2> QED BY <1>1, <1>3, <1>5, <2>3, <2>5, <2>6
  <1>6. CASE /\ AfterProbe(cl) # "serve" /\ UNCHANGED aborted
             /\ IF AfterProbe(cl) = "r_begin" THEN LoadIdentity /\ cli' = [cl EXCEPT !.key = Key]
                                              ELSE UNCHANGED <<ident, slipped>> /\ cli' = cl
             /\ \E h \in {"pipes", "yes"} :
                  /\ h = "pipes" => call[c].hears = "pipes"
                  /\ call' = [call EXCEPT ![c].pc = "conn", ![c].step = AfterProbe(cl), ![c].hears = h]
    <2>0. AfterProbe(cl) \in ServeSteps(cl.by) /\ AfterProbe(cl) \in Steps /\ cl.by # "zmk"
      BY <1>2, <1>6, ScriptSets
    <2>1. call' = [call EXCEPT ![c].pc = "conn", ![c].step = AfterProbe(cl), ![c].hears = "yes"]
      BY <1>6, <2>0
    <2>2. PICK n : n = [call[c] EXCEPT !.pc = "conn", !.step = AfterProbe(cl), !.hears = "yes"]
      OBVIOUS
    <2>3. n \in Calling /\ n.pc = "conn" /\ n.hears = "yes" /\ n.who = call[c].who
          /\ n.step = AfterProbe(cl)
      BY <1>1, <2>0, <2>2 DEF Calling, PCs
    <2>4. call' = [call EXCEPT ![c] = n]
      BY <1>1, <2>1, <2>2
    <2>5. call' \in [Callers -> Calling] /\ call'[c] = n /\ \A d \in Callers \ {c} : call'[d] = call[d]
      BY <1>1, <2>3, <2>4
    <2>6. Held /\ Key \in Nat
      BY KeyTypes DEF Held
    <2>7. cli' \in Client /\ cli'.user = c /\ cli'.by = cl.by /\ cli'.open = cl.open
          /\ ident' \in Identity /\ slipped' \in BOOLEAN
      <3>1. CASE AfterProbe(cl) = "r_begin"
        <4>1. cli' = [cl EXCEPT !.key = Key] /\ LoadIdentity
          BY <1>6, <3>1
        <4>2. cli' \in Client /\ cli'.user = c /\ cli'.by = cl.by /\ cli'.open = cl.open
          BY <2>6, <4>1 DEF Client
        <4> QED BY <4>1, <4>2, KeyTypes DEF Held
      <3>2. CASE AfterProbe(cl) # "r_begin"
        BY <1>1, <1>6, <3>2
      <3> QED BY <3>1, <3>2
    <2>8. cli'.open
      BY <2>0, <2>7
    <2>9. Serving(c)'
      BY <2>0, <2>3, <2>5, <2>7, <2>8 DEF Serving, Holds, ServeSteps
    <2>10. CallOK(c)'
      BY <1>2, <2>3, <2>5, <2>9, Vocabulary DEF CallOK, Picking, Connecting
    <2>11. cl.by \in RawHid => cli'.open
      BY <2>8
    <2> QED BY <1>1, <1>3, <1>6, <2>3, <2>5, <2>7, <2>10, <2>11
  <1> QED BY <1>4, <1>5, <1>6 DEF Entered

LEMMA ConnectHolds ==
    ASSUME Held, NEW c \in Callers, Connect(c)
    PROVE  Held'
  <1>1. /\ call \in [Callers -> Calling] /\ cli \in Client /\ call[c] \in Calling
        /\ missed \in 0..MaxMissed /\ astray \in BOOLEAN /\ barred \in BOOLEAN
        /\ ident \in Identity /\ slipped \in BOOLEAN /\ aborted \in BOOLEAN
    BY DEF Held, TypeOK
  <1>2. call[c].pc = "picked"
        /\ UNCHANGED <<setup, order, stale, missed, astray, rounds, faults, barred>>
    BY DEF Connect
  <1>3. CallOK(c) /\ ClientOK
    BY DEF Held
  <1>4. cli.user # c /\ call[c].hears = "no" /\ call[c].who # None /\ call[c].who \in Adapters
    BY <1>1, <1>2, <1>3 DEF CallOK, Calling
  <1>5. PICK a : a = call[c].who
    OBVIOUS
  <1>6. CASE Cached(a) /\ Enter(c, [cli EXCEPT !.user = c])
    <2>1. PICK cl : cl = [cli EXCEPT !.user = c]
      OBVIOUS
    <2>2. cl \in Client /\ cl.user = c /\ cl.by = cli.by /\ cl.open = cli.open
      BY <1>1, <2>1 DEF Client
    <2>3. cli.by = a /\ cli.user = "cache" /\ cli.open
      BY <1>3, <1>6 DEF Cached, ClientOK
    <2>4. Enter(c, cl)
      BY <1>6, <2>1
    <2>5. Entered(c, cl)
      BY <1>3, <1>4, <1>5, <2>2, <2>3, <2>4, Entering DEF Held
    <2>6. \A d \in Callers \ {c} : cli.user # d
      BY <2>3, Vocabulary
    <2> QED BY <1>1, <1>2, <1>4, <1>5, <2>2, <2>3, <2>5, <2>6, EnteredHolds
  <1>7. CASE /\ cli.by = None
             /\ cli' = [Fresh(a, c) EXCEPT !.open = (a = "zmk" => ~call[c].sig)]
             /\ call' = [call EXCEPT ![c].pc = "conn", ![c].step = First(a),
                                     ![c].hears = IF a = "zmk" THEN "pipes" ELSE @]
             /\ UNCHANGED <<aborted, ident, slipped>>
    <2>1. First(a) \in ProbeSteps(a) /\ First(a) \in Steps /\ a \in Adapters
      BY <1>4, <1>5, FirstSteps, ScriptSets
    <2>2. PICK n : n = [call[c] EXCEPT !.pc = "conn", !.step = First(a),
                                     !.hears = IF a = "zmk" THEN "pipes" ELSE call[c].hears]
      OBVIOUS
    <2>3. n \in Calling /\ n.pc = "conn" /\ n.step = First(a) /\ n.who = a
          /\ n.hears = IF a = "zmk" THEN "pipes" ELSE "no"
      BY <1>1, <1>4, <1>5, <2>1, <2>2 DEF Calling, PCs
    <2>4. call' = [call EXCEPT ![c] = n]
      BY <1>1, <1>7, <2>2
    <2>5. call' \in [Callers -> Calling] /\ call'[c] = n /\ \A d \in Callers \ {c} : call'[d] = call[d]
      BY <1>1, <2>3, <2>4
    <2>6. Fresh(a, c) \in Client /\ Fresh(a, c).by = a /\ Fresh(a, c).user = c
      BY <2>1, ClientTypes
    <2>7. cli' \in Client /\ cli'.by = a /\ cli'.user = c /\ cli'.open = (a = "zmk" => ~call[c].sig)
      BY <1>7, <2>6 DEF Client
    <2>8. cli.user = None
      BY <1>3, <1>7, ClientTypes DEF ClientOK
    <2>9. Moved(c)
      BY <1>2, <1>7, <2>5, <2>7, <2>8, Vocabulary DEF Moved
    <2>10. TypeOK'
      BY <1>2, <1>7, <2>5, <2>7 DEF Held, TypeOK
    <2>11. Probing(c)'
      BY <2>1, <2>3, <2>5, <2>7 DEF Probing, Holds, ProbeSteps
    <2>12. CallOK(c)'
      BY <2>1, <2>3, <2>5, <2>11, Vocabulary DEF CallOK, Picking, Connecting
    <2>13. /\ cli'.by \in RawHid => cli'.open
           /\ cli'.by # None /\ cli'.user # None /\ cli'.user # "cache" /\ cli'.by = call'[c].who
      BY <2>1, <2>3, <2>5, <2>7, Vocabulary DEF RawHid
    <2> QED BY <2>9, <2>10, <2>12, <2>13, OneMoved
  <1>8. CASE call' = [call EXCEPT ![c].pc = "failed", ![c].step = "locked"]
             /\ UNCHANGED <<cli, aborted, ident, slipped>>
    <2>1. call' \in [Callers -> Calling] /\ call'[c].pc = "failed" /\ call'[c].who = call[c].who
          /\ \A d \in Callers \ {c} : call'[d] = call[d]
      BY <1>1, <1>8 DEF Calling, PCs
    <2>2. TypeOK'
      BY <1>2, <1>8, <2>1 DEF Held, TypeOK
    <2>3. Moved(c) /\ CallOK(c)'
      BY <1>2, <1>4, <1>8, <2>1 DEF Moved, CallOK, Picking, Connecting
    <2> QED BY <1>3, <1>8, <2>1, <2>2, <2>3, OneMoved DEF ClientOK
  <1> QED BY <1>5, <1>6, <1>7, <1>8 DEF Connect

(***************************************************************************)
(* An exchange.                                                            *)
(***************************************************************************)
LEMMA WayTypes ==
    ASSUME Held, NEW c \in Callers, NEW v, NEW w \in Ways(c, v)
    PROVE  /\ w.good \in BOOLEAN /\ w.orphan \in BOOLEAN
           /\ missed + w.missed \in 0..MaxMissed
           /\ w.good => Mine(c) /\ ~aborted
  <1>1. missed \in 0..MaxMissed /\ MaxMissed \in Nat /\ cli.orphan \in BOOLEAN /\ missed + 0 = missed
    BY BoundsAssumption DEF Held, TypeOK, Client
  <1>2. CASE ~Mine(c) \/ aborted
    <2>1. w = Way(FALSE, cli.orphan, stale, 0)
      BY <1>2 DEF Ways
    <2>2. w.good = FALSE /\ w.orphan = cli.orphan /\ w.missed = 0
      BY <2>1 DEF Way
    <2> QED BY <1>1, <2>2
  <1>3. CASE ~(~Mine(c) \/ aborted) /\ cli.by \notin RawHid
    <2>1. \/ w = Way(Knows(v), FALSE, stale, 0)
          \/ \E n \in {1} \cap (0..MaxMissed - missed) : w = Way(FALSE, FALSE, stale, n)
      BY <1>3 DEF Ways
    <2>2. CASE w = Way(Knows(v), FALSE, stale, 0)
      BY <1>1, <1>3, <2>2 DEF Way, Knows
    <2>3. ASSUME NEW n \in {1} \cap (0..MaxMissed - missed), w = Way(FALSE, FALSE, stale, n)
          PROVE  w.good = FALSE /\ w.orphan = FALSE /\ missed + w.missed \in 0..MaxMissed
      BY <1>1, <2>3 DEF Way
    <2> QED BY <1>3, <2>1, <2>2, <2>3
  <1>4. CASE ~(~Mine(c) \/ aborted) /\ cli.by \in RawHid
    <2>1. \/ \E g \in BOOLEAN, o \in BOOLEAN : \E l : w = Way(g, o, l, 0)
          \/ /\ missed # MaxMissed
             /\ \E o \in BOOLEAN : \E l : w = Way(FALSE, o, l, 1)
      <3>1. CASE ~cli.orphan /\ ~cli.pump /\ stale # None
        <4>1. w = Way(stale = v, FALSE, IF Replies(v) THEN Tag(v) ELSE None, 0)
          BY <1>4, <3>1 DEF Ways
        <4>2. (stale = v) \in BOOLEAN
          OBVIOUS
        <4> QED BY <4>1, <4>2
      <3>2. CASE ~(~cli.orphan /\ ~cli.pump /\ stale # None) /\ cli.orphan /\ stale = None
        <4>1. w = Way(FALSE, ~(cli.pump /\ Replies(v)), None, 0)
          BY <1>4, <3>2 DEF Ways
        <4>2. (~(cli.pump /\ Replies(v))) \in BOOLEAN
          OBVIOUS
        <4> QED BY <4>1, <4>2
      <3>3. CASE ~(~cli.orphan /\ ~cli.pump /\ stale # None) /\ ~(cli.orphan /\ stale = None)
        <4>1. \/ w = Way(Knows(v), ~cli.pump /\ ~Replies(v), None, 0)
              \/ \E left \in IF missed = MaxMissed \/ ~Replies(v) THEN {}
                             ELSE IF cli.pump THEN {None} ELSE {None, Tag(v)} :
                    w = Way(FALSE, ~cli.pump, left, 1)
          BY <1>4, <3>3 DEF Ways
        <4>2. Knows(v) \in BOOLEAN /\ (~cli.pump /\ ~Replies(v)) \in BOOLEAN /\ (~cli.pump) \in BOOLEAN
          BY DEF Knows
        <4> QED BY <4>1, <4>2
      <3> QED BY <3>1, <3>2, <3>3
    <2>2. ASSUME NEW g \in BOOLEAN, NEW o \in BOOLEAN, NEW l, w = Way(g, o, l, 0)
          PROVE  w.good \in BOOLEAN /\ w.orphan \in BOOLEAN /\ w.missed = 0
      BY <2>2 DEF Way
    <2>3. ASSUME NEW o \in BOOLEAN, NEW l, w = Way(FALSE, o, l, 1)
          PROVE  w.good = FALSE /\ w.orphan \in BOOLEAN /\ w.missed = 1
      BY <2>3 DEF Way
    <2>4. missed # MaxMissed => missed + 1 \in 0..MaxMissed
      BY <1>1
    <2> QED BY <1>1, <1>4, <2>1, <2>2, <2>3, <2>4
  <1> QED BY <1>2, <1>3, <1>4

\* What an answer changes about the client that asked.
Told(c, cl) ==
    /\ cl \in Client /\ cl.by = cli.by /\ cl.user = cli.user /\ cl.open = cli.open
    /\ cl.key = cli.key
    /\ cli.user # c => cl = cli

HeardBy(c, s, w) ==
    IF cli.user = c THEN [Learns(cli, s, w.good) EXCEPT !.orphan = w.orphan] ELSE cli

LEMMA Telling ==
    ASSUME Held, NEW c \in Callers, NEW s, NEW w, w.good \in BOOLEAN, w.orphan \in BOOLEAN
    PROVE  Told(c, HeardBy(c, s, w))
  <1>1. cli \in Client
    BY DEF Held, TypeOK
  <1>2. CASE cli.user # c
    BY <1>1, <1>2 DEF Told, HeardBy
  <1>3. CASE cli.user = c
    <2>1. PICK l : l = Learns(cli, s, w.good)
      OBVIOUS
    <2>2. \/ l = [cli EXCEPT !.dongle = TRUE]
          \/ l = [cli EXCEPT !.dongle = (setup.board = "dongle")]
          \/ l = [cli EXCEPT !.caps = IF setup.board = "openNode" THEN "open" ELSE "auth"]
          \/ l = [cli EXCEPT !.pump = w.good]
          \/ l = cli
      BY <2>1 DEF Learns
    <2>3. l \in Client /\ l.by = cli.by /\ l.user = cli.user /\ l.open = cli.open /\ l.key = cli.key
      <3>1. CASE l = [cli EXCEPT !.dongle = TRUE]
        BY <1>1, <3>1 DEF Client
      <3>2. CASE l = [cli EXCEPT !.dongle = (setup.board = "dongle")]
        <4>1. PICK b \in BOOLEAN : b = (setup.board = "dongle")
          OBVIOUS
        <4> QED BY <1>1, <3>2, <4>1 DEF Client
      <3>3. CASE l = [cli EXCEPT !.caps = IF setup.board = "openNode" THEN "open" ELSE "auth"]
        <4>1. PICK b \in {"open", "auth"} : b = IF setup.board = "openNode" THEN "open" ELSE "auth"
          OBVIOUS
        <4> QED BY <1>1, <3>3, <4>1 DEF Client
      <3>4. CASE l = [cli EXCEPT !.pump = w.good]
        BY <1>1, <3>4 DEF Client
      <3> QED BY <1>1, <2>2, <3>1, <3>2, <3>3, <3>4
    <2>4. HeardBy(c, s, w) = [l EXCEPT !.orphan = w.orphan]
      BY <1>3, <2>1 DEF HeardBy
    <2>5. [l EXCEPT !.orphan = w.orphan] \in Client
      BY <2>3 DEF Client
    <2> QED BY <1>3, <2>3, <2>4, <2>5 DEF Told, Client
  <1> QED BY <1>2, <1>3

\* A step that leaves the client with its user, or lets go of it.
LetGo(c) ==
    \/ cli' = cli
    \/ cli' = NoClient /\ cli.user = c
    \/ cli' = [cli EXCEPT !.open = FALSE] /\ cli.user = c /\ cli.by = "zmk"

LEMMA CloseAborts ==
    ASSUME Held, NEW c \in Callers, call[c].who \in Adapters, CloseAbort(call[c].who, c)
    PROVE  /\ LetGo(c) /\ aborted' \in BOOLEAN /\ (aborted => aborted')
           /\ cli'.user = c => aborted'
  <1>1. aborted \in BOOLEAN /\ cli \in Client /\ ClientOK
    BY DEF Held, TypeOK
  <1>2. PICK a \in Adapters : a = call[c].who
    OBVIOUS
  <1>3. cli.user = c => cli.by = a
    BY <1>1, <1>2 DEF ClientOK
  <1>4. CASE a = "remappr"
    <2>1. aborted' = TRUE /\ cli' = IF cli.user = c THEN NoClient ELSE cli
      BY <1>2, <1>4 DEF CloseAbort, RawHid
    <2> QED BY <1>1, <2>1, ClientTypes, Vocabulary DEF LetGo
  <1>5. CASE a \in RawHid
    <2>1. a # "remappr" /\ a # "zmk"
      BY <1>5 DEF RawHid
    <2>2. IF Mine(c) THEN cli' = NoClient /\ aborted' = TRUE ELSE UNCHANGED <<cli, aborted>>
      BY <1>2, <1>5, <2>1 DEF CloseAbort
    <2>3. cli.user = c => Mine(c)
      BY <1>1, <1>3, <1>5 DEF ClientOK, Mine
    <2> QED BY <1>1, <2>2, <2>3, ClientTypes DEF LetGo, Mine
  <1>6. CASE a = "zmk"
    <2>1. /\ aborted' = TRUE
          /\ cli' = IF cli.user = c THEN [cli EXCEPT !.open = FALSE] ELSE cli
      BY <1>2, <1>6 DEF CloseAbort, RawHid
    <2> QED BY <1>1, <1>3, <1>6, <2>1 DEF LetGo
  <1> QED BY <1>4, <1>5, <1>6 DEF Adapters, RawHid

LEMMA Advanced ==
    ASSUME Held, NEW c \in Callers, NEW n \in Calling, call' = [call EXCEPT ![c] = n],
           n.who = call[c].who, Told(c, cli') \/ LetGo(c), CallOK(c)',
           aborted' \in BOOLEAN, aborted => aborted', ident' \in Identity,
           slipped' \in BOOLEAN, barred' \in BOOLEAN, astray' \in BOOLEAN,
           missed' \in 0..MaxMissed, UNCHANGED <<setup, order, rounds>>,
           faults' = faults \/ faults' \in 0..MaxFaults
    PROVE  Held'
  <1>1. call \in [Callers -> Calling] /\ cli \in Client /\ ClientOK
    BY DEF Held, TypeOK
  <1>2. call' \in [Callers -> Calling] /\ call'[c] = n /\ \A d \in Callers \ {c} : call'[d] = call[d]
    BY <1>1
  <1>3. cli' \in Client
    <2>1. [cli EXCEPT !.open = FALSE] \in Client
      BY <1>1 DEF Client
    <2> QED BY <1>1, <2>1, ClientTypes DEF Told, LetGo
  <1>4. TypeOK'
    BY <1>2, <1>3 DEF Held, TypeOK
  <1>5. \A d \in Callers \ {c} : cli.user = d \/ cli'.user = d => cli' = cli
    <2>1. CASE Told(c, cli')
      BY <2>1 DEF Told
    <2>2. CASE LetGo(c)
      <3>1. [cli EXCEPT !.open = FALSE].user = cli.user
        BY <1>1 DEF Client
      <3>2. \A d \in Callers : NoClient.user # d
        BY ClientTypes, Vocabulary
      <3>3. cli' = cli \/ (cli.user = c /\ cli'.user \in {NoClient.user, c})
        BY <2>2, <3>1 DEF LetGo
      <3> QED BY <3>2, <3>3
    <2> QED BY <2>1, <2>2
  <1>6. Moved(c)
    BY <1>2, <1>5 DEF Moved
  <1>7. /\ cli'.by = None => cli' = NoClient
        /\ cli'.by # None => cli'.user # None
        /\ cli'.by \in RawHid => cli'.open
        /\ cli'.user = "cache" => cli'.open
        /\ cli'.user = c => cli'.by = call'[c].who
    <2>1. CASE Told(c, cli')
      <3>1. cli'.by = None => cli' = cli
        BY <1>1, <2>1, ClientTypes, Vocabulary DEF Told, ClientOK
      <3> QED BY <1>1, <1>2, <2>1, <3>1 DEF Told, ClientOK
    <2>2. CASE cli' = cli
      BY <1>1, <1>2, <2>2 DEF ClientOK
    <2>3. CASE cli' = NoClient
      <3>1. NoClient.by \notin RawHid /\ NoClient.user # "cache" /\ NoClient.user # c
        BY ClientTypes, Vocabulary
      <3> QED BY <2>3, <3>1, ClientTypes
    <2>4. CASE cli' = [cli EXCEPT !.open = FALSE] /\ cli.user = c /\ cli.by = "zmk"
      <3>1. cli'.by = "zmk" /\ cli'.user = c
        BY <1>1, <2>4 DEF Client
      <3> QED BY <1>1, <1>2, <2>4, <3>1, Vocabulary DEF ClientOK, RawHid
    <2> QED BY <2>1, <2>2, <2>3, <2>4 DEF LetGo
  <1> QED BY <1>4, <1>6, <1>7, OneMoved

\* An exchange: what it learns, and the six ways on from there.
Exchanged(c, w, next, heard) ==
    LET s == call[c].step  v == Script[s].ask IN
    /\ w.good \in BOOLEAN /\ w \in Ways(c, v) /\ next = Goes(s, w.good)
    /\ w.good => Mine(c) /\ ~aborted
    /\ heard = HeardBy(c, s, w) /\ Told(c, heard)
    /\ stale' = w.stale /\ missed' = missed + w.missed
    /\ astray' = (astray \/ Foreign(c, v, w))
    /\ barred' = (barred \/ (Bonds(c, v) /\ Bonded))
    /\ UNCHANGED <<setup, order, rounds, faults>>

Bonding(c) ==
    ident' = IF Bonds(c, Script[call[c].step].ask) /\ ~Bonded
             THEN [ident EXCEPT !.bond = cli.key] ELSE ident

GoesOn(c, next, heard) ==
    /\ next \in Steps
    /\ call' = [call EXCEPT ![c].step = next]
    /\ cli' = heard /\ Bonding(c)
    /\ UNCHANGED <<aborted, slipped>>

FoundInPick(c, next, heard) ==
    /\ next = "found" /\ call[c].pc = "pick"
    /\ call' = [call EXCEPT ![c].pc = "picked"]
    /\ cli' = [heard EXCEPT !.user = "cache"]
    /\ UNCHANGED <<aborted, ident, slipped>>

RefusedThere(c, next) ==
    /\ next = "no"
    /\ call' = IF call[c].pc = "pick"
               THEN [call EXCEPT ![c].at = @ + 1, ![c].step = "next"]
               ELSE [call EXCEPT ![c].pc = "failed"]
    /\ Refused(call[c].who, c)
    /\ UNCHANGED <<ident, slipped>>

GivenUp(c, next, heard) ==
    /\ next \in {"drop", "throw"}
    /\ call' = [call EXCEPT ![c].pc = "failed"]
    /\ IF next = "drop" THEN CloseAbort(call[c].who, c)
                        ELSE cli' = heard /\ UNCHANGED aborted
    /\ Bonding(c) /\ UNCHANGED slipped

Served(c, next, heard) ==
    /\ next = "serve"
    /\ call' = [call EXCEPT ![c].pc = "service", ![c].svc = ServiceOf(call[c].step),
                            ![c].note = Noticed(call[c].step)]
    /\ cli' = heard
    /\ UNCHANGED <<aborted, ident, slipped>>

LEMMA Exchanging ==
    ASSUME Held, NEW c \in Callers, Exchange(c)
    PROVE  /\ call[c].step \in Steps /\ call[c].pc \in {"pick", "conn"}
           /\ \E w, next, heard :
                /\ Exchanged(c, w, next, heard)
                /\ \/ GoesOn(c, next, heard)
                   \/ FoundInPick(c, next, heard)
                   \/ next = "found" /\ call[c].pc = "conn" /\ Enter(c, heard)
                   \/ RefusedThere(c, next)
                   \/ GivenUp(c, next, heard)
                   \/ Served(c, next, heard)
  <1> DEFINE s == call[c].step
             v == Script[s].ask
  <1>1. s \in Steps /\ call[c].pc \in {"pick", "conn"} /\ UNCHANGED <<setup, order, rounds, faults>>
    BY DEF Exchange
  <1>2. PICK w \in Ways(c, v) :
        LET next == Goes(s, w.good)
            heard == HeardBy(c, s, w)
        IN
        /\ stale' = w.stale /\ missed' = missed + w.missed
        /\ astray' = (astray \/ Foreign(c, v, w))
        /\ barred' = (barred \/ (Bonds(c, v) /\ Bonded))
        /\ \/ GoesOn(c, next, heard)
           \/ FoundInPick(c, next, heard)
           \/ next = "found" /\ call[c].pc = "conn" /\ Enter(c, heard)
           \/ RefusedThere(c, next)
           \/ GivenUp(c, next, heard)
           \/ Served(c, next, heard)
    BY DEF Exchange, HeardBy, GoesOn, FoundInPick, RefusedThere, GivenUp, Served, Bonding
  <1>3. w.good \in BOOLEAN /\ w.orphan \in BOOLEAN /\ (w.good => Mine(c) /\ ~aborted)
    BY WayTypes
  <1>4. Told(c, HeardBy(c, s, w))
    BY <1>3, Telling
  <1>5. Exchanged(c, w, Goes(s, w.good), HeardBy(c, s, w))
    BY <1>1, <1>2, <1>3, <1>4 DEF Exchanged
  <1> QED BY <1>1, <1>2, <1>5

LEMMA ExchangeTypes ==
    ASSUME Held, NEW c \in Callers, NEW w, NEW next, NEW heard, Exchanged(c, w, next, heard)
    PROVE  /\ missed' \in 0..MaxMissed /\ astray' \in BOOLEAN /\ barred' \in BOOLEAN
           /\ Bonding(c) => ident' \in Identity
           /\ Picking(c) /\ Connecting(c)
           /\ call[c].pc = "pick" /\ call[c].step \in Steps =>
                 /\ call[c].step \in ProbeSteps(call[c].who) /\ call[c].who \in Adapters
                 /\ ProbeGoes(call[c].who, call[c].step, w.good)
                 /\ Holds(c) /\ cli.open
           /\ call[c].pc = "conn" => call[c].who \in Adapters
           /\ call[c].pc = "conn" /\ Probing(c) => ProbeGoes(call[c].who, call[c].step, w.good)
           /\ call[c].pc = "conn" /\ Serving(c) => ServeGoes(call[c].who, call[c].step, w.good)
  <1>1. call[c] \in Calling /\ astray \in BOOLEAN /\ barred \in BOOLEAN /\ ident \in Identity
        /\ cli \in Client /\ CallOK(c)
    BY DEF Held, TypeOK
  <1>2. missed' \in 0..MaxMissed
    BY WayTypes DEF Exchanged
  <1>3. astray' \in BOOLEAN /\ barred' \in BOOLEAN
    BY <1>1 DEF Exchanged
  <1>4. Bonding(c) => ident' \in Identity
    <2>1. [ident EXCEPT !.bond = cli.key] \in Identity
      BY <1>1 DEF Identity, Client
    <2> QED BY <1>1, <2>1 DEF Bonding
  <1>5. call[c].who \in Adapters \cup {None} /\ w.good \in BOOLEAN
    BY <1>1 DEF Calling, Exchanged
  <1>6. "next" \notin Steps
    BY PartDomains, ScriptParts
  <1>7. ASSUME call[c].pc = "pick", call[c].step \in Steps
        PROVE  /\ call[c].step \in ProbeSteps(call[c].who) /\ call[c].who \in Adapters
               /\ Holds(c) /\ cli.open
    BY <1>1, <1>5, <1>6, <1>7 DEF CallOK, Picking
  <1>8. call[c].pc = "conn" => call[c].who \in Adapters
    BY <1>1, <1>5 DEF CallOK
  <1>9. PICK a, s : a = call[c].who /\ s = call[c].step
    OBVIOUS
  <1>10. a \in Adapters /\ s \in ProbeSteps(a) => ProbeGoes(a, s, w.good)
    BY <1>5, ProbeGoing
  <1>11. a \in Adapters /\ s \in ServeSteps(a) => ServeGoes(a, s, w.good)
    BY <1>5, ServeGoing
  <1>12. Probing(c) => s \in ProbeSteps(a)
    BY <1>9 DEF Probing
  <1>13. Serving(c) => s \in ServeSteps(a)
    BY <1>9 DEF Serving
  <1> QED BY <1>1, <1>2, <1>3, <1>4, <1>7, <1>8, <1>9, <1>10, <1>11, <1>12, <1>13 DEF CallOK

LEMMA GoesOnHolds ==
    ASSUME Held, NEW c \in Callers, call[c].step \in Steps, call[c].pc \in {"pick", "conn"},
           NEW w, NEW next, NEW heard, Exchanged(c, w, next, heard), GoesOn(c, next, heard)
    PROVE  Held'
  <1>1. call \in [Callers -> Calling] /\ call[c] \in Calling /\ aborted \in BOOLEAN
        /\ slipped \in BOOLEAN /\ cli \in Client /\ CallOK(c)
    BY DEF Held, TypeOK
  <1>2. PICK n : n = [call[c] EXCEPT !.step = next]
    OBVIOUS
  <1>3. n \in Calling /\ n.step = next /\ n.pc = call[c].pc /\ n.who = call[c].who
        /\ n.hears = call[c].hears
    BY <1>1, <1>2 DEF GoesOn, Calling
  <1>4. call' = [call EXCEPT ![c] = n] /\ call'[c] = n
    BY <1>1, <1>2, <1>3 DEF GoesOn
  <1>5. Told(c, cli') /\ cli'.user = cli.user /\ cli'.by = cli.by /\ cli'.open = cli.open
        /\ aborted' = aborted /\ slipped' = slipped /\ Bonding(c)
    BY DEF GoesOn, Exchanged, Told
  <1>6. next \notin {"found", "no", "serve", "drop", "throw", "next"} /\ next \in Steps
    BY PartDomains, ScriptParts DEF GoesOn
  <1>7. CASE call[c].pc = "pick"
    <2>1. /\ call[c].who \in Adapters /\ ProbeGoes(call[c].who, call[c].step, w.good)
          /\ Holds(c) /\ cli.open
      BY <1>7, ExchangeTypes
    <2>2. next \in ProbeSteps(call[c].who)
      BY <1>6, <2>1 DEF ProbeGoes, Exchanged
    <2>3. Picking(c)'
      BY <1>3, <1>4, <1>5, <2>1, <2>2, Vocabulary DEF Picking, Holds, ProbeSteps
    <2>4. CallOK(c)'
      BY <1>1, <1>3, <1>4, <1>5, <1>6, <1>7, <2>3 DEF CallOK, Connecting
    <2> QED BY <1>1, <1>3, <1>4, <1>5, <2>4, ExchangeTypes, Advanced DEF Exchanged
  <1>8. CASE call[c].pc = "conn" /\ Probing(c)
    <2>1. ProbeGoes(call[c].who, call[c].step, w.good)
      BY <1>8, ExchangeTypes
    <2>2. next \in ProbeSteps(call[c].who)
      BY <1>6, <2>1 DEF ProbeGoes, Exchanged
    <2>3. Probing(c)'
      BY <1>3, <1>4, <1>5, <1>8, <2>2 DEF Probing, Holds, ProbeSteps
    <2>4. CallOK(c)'
      BY <1>1, <1>3, <1>4, <1>5, <1>8, <2>3 DEF CallOK, Connecting, Picking
    <2> QED BY <1>1, <1>3, <1>4, <1>5, <2>4, ExchangeTypes, Advanced DEF Exchanged
  <1>9. CASE call[c].pc = "conn" /\ Serving(c)
    <2>1. ServeGoes(call[c].who, call[c].step, w.good)
      BY <1>9, ExchangeTypes
    <2>2. next \in ServeSteps(call[c].who)
      BY <1>6, <2>1 DEF ServeGoes, Exchanged
    <2>3. Serving(c)'
      BY <1>3, <1>4, <1>5, <1>9, <2>2 DEF Serving, Holds, ServeSteps
    <2>4. CallOK(c)'
      BY <1>1, <1>3, <1>4, <1>5, <1>9, <2>3 DEF CallOK, Connecting, Picking
    <2> QED BY <1>1, <1>3, <1>4, <1>5, <2>4, ExchangeTypes, Advanced DEF Exchanged
  <1> QED BY <1>1, <1>7, <1>8, <1>9 DEF CallOK, Connecting

LEMMA FoundHolds ==
    ASSUME Held, NEW c \in Callers, call[c].step \in Steps,
           NEW w, NEW next, NEW heard, Exchanged(c, w, next, heard), FoundInPick(c, next, heard)
    PROVE  Held'
  <1>1. call \in [Callers -> Calling] /\ call[c] \in Calling /\ aborted \in BOOLEAN
        /\ slipped \in BOOLEAN /\ cli \in Client /\ CallOK(c) /\ ident \in Identity
    BY DEF Held, TypeOK
  <1>2. call[c].pc = "pick" /\ Told(c, heard)
        /\ UNCHANGED <<setup, order, rounds, faults, aborted, ident, slipped>>
    BY DEF FoundInPick, Exchanged
  <1>3. call[c].who \in Adapters /\ Holds(c) /\ cli.open
    BY <1>2, ExchangeTypes
  <1>4. heard \in Client /\ heard.by = call[c].who /\ heard.open
    BY <1>2, <1>3 DEF Told, Holds
  <1>5. cli' \in Client /\ cli'.by = call[c].who /\ cli'.open /\ cli'.user = "cache"
    BY <1>4 DEF FoundInPick, Client
  <1>6. call' \in [Callers -> Calling] /\ call'[c].pc = "picked" /\ call'[c].who = call[c].who
        /\ call'[c].hears = call[c].hears /\ \A d \in Callers \ {c} : call'[d] = call[d]
    BY <1>1 DEF FoundInPick, Calling, PCs
  <1>7. TypeOK'
    BY <1>2, <1>5, <1>6, ExchangeTypes DEF Held, TypeOK
  <1>8. Moved(c)
    BY <1>2, <1>3, <1>5, <1>6, Vocabulary DEF Moved, Holds
  <1>9. CallOK(c)'
    BY <1>1, <1>2, <1>3, <1>5, <1>6, Vocabulary DEF CallOK, Picking, Connecting
  <1> QED BY <1>3, <1>5, <1>7, <1>8, <1>9, OneMoved, Vocabulary

LEMMA Refusing ==
    ASSUME Held, NEW c \in Callers, call[c].who \in Adapters, Holds(c), Refused(call[c].who, c)
    PROVE  /\ LetGo(c) /\ aborted' \in BOOLEAN /\ (aborted => aborted')
           /\ cli'.user = c => aborted' \/ (call[c].who = "zmk" /\ call[c].pc = "conn")
  <1>1. aborted \in BOOLEAN /\ cli \in Client /\ ClientOK
    BY DEF Held, TypeOK
  <1>2. CASE call[c].who \in RawHid
    <2>1. Mine(c) /\ Close(c)
      BY <1>1, <1>2 DEF Refused, ClientOK, Holds, Mine
    <2> QED BY <1>1, <2>1, ClientTypes, Vocabulary DEF Close, LetGo, Holds
  <1>3. CASE call[c].who = "zmk" /\ call[c].pc = "conn"
    BY <1>1, <1>3 DEF Refused, LetGo, RawHid
  <1>4. CASE call[c].who \notin RawHid /\ ~(call[c].who = "zmk" /\ call[c].pc = "conn")
    <2>1. CloseAbort(call[c].who, c)
      BY <1>4 DEF Refused
    <2> QED BY <2>1, CloseAborts
  <1> QED BY <1>2, <1>3, <1>4

LEMMA RefusedHolds ==
    ASSUME Held, NEW c \in Callers, call[c].step \in Steps, call[c].pc \in {"pick", "conn"},
           NEW w, NEW next, NEW heard, Exchanged(c, w, next, heard), RefusedThere(c, next)
    PROVE  Held'
  <1>1. call \in [Callers -> Calling] /\ call[c] \in Calling /\ aborted \in BOOLEAN
        /\ slipped \in BOOLEAN /\ cli \in Client /\ CallOK(c) /\ ident \in Identity
    BY DEF Held, TypeOK
  <1>2. UNCHANGED <<setup, order, rounds, faults, ident, slipped>> /\ next = "no"
    BY DEF RefusedThere, Exchanged
  <1>3. "no" \notin Steps /\ "next" \notin Steps
    BY PartDomains, ScriptParts
  <1>4. call[c].who \in Adapters /\ Holds(c) /\ (call[c].pc = "conn" => Probing(c))
    <2>1. CASE call[c].pc = "pick"
      BY <2>1, ExchangeTypes
    <2>2. CASE call[c].pc = "conn" /\ Probing(c)
      BY <2>2, ExchangeTypes DEF Probing
    <2>3. CASE call[c].pc = "conn" /\ Serving(c)
      <3>1. ServeGoes(call[c].who, call[c].step, w.good) /\ next = Goes(call[c].step, w.good)
            /\ call[c].who \in Adapters
        BY <2>3, ExchangeTypes DEF Exchanged
      <3>2. next \in Steps \cup {"serve", "drop", "throw"}
        BY <3>1, ScriptSets DEF ServeGoes
      <3> QED BY <1>2, <1>3, <3>2
    <2> QED BY <1>1, <2>1, <2>2, <2>3 DEF CallOK, Connecting
  <1>5. /\ LetGo(c) /\ aborted' \in BOOLEAN /\ (aborted => aborted')
        /\ cli'.user = c => aborted' \/ (call[c].who = "zmk" /\ call[c].pc = "conn")
    BY <1>4, Refusing DEF RefusedThere
  <1>6. CASE call[c].pc = "pick"
    <2>0. PICK m \in Nat : m = call[c].at + 1 /\ m >= 1
      BY <1>1 DEF Calling
    <2>1. PICK n : n = [call[c] EXCEPT !.at = m, !.step = "next"]
      OBVIOUS
    <2>2. n \in Calling /\ n.step = "next" /\ n.at >= 1 /\ n.pc = "pick" /\ n.who = call[c].who
          /\ n.hears = call[c].hears
      BY <1>1, <1>6, <2>0, <2>1 DEF Calling
    <2>3. call' = [call EXCEPT ![c] = n]
      BY <1>1, <1>6, <2>0, <2>1 DEF RefusedThere
    <2>4. call'[c] = n
      BY <1>1, <2>3
    <2>5. CallOK(c)'
      BY <1>1, <1>5, <1>6, <2>2, <2>4 DEF CallOK, Picking, Connecting
    <2> QED BY <1>1, <1>2, <1>5, <2>2, <2>3, <2>5, ExchangeTypes, Advanced
  <1>7. CASE call[c].pc = "conn"
    <2>1. PICK n : n = [call[c] EXCEPT !.pc = "failed"]
      OBVIOUS
    <2>2. n \in Calling /\ n.pc = "failed" /\ n.who = call[c].who /\ n.step = call[c].step
      BY <1>1, <2>1 DEF Calling, PCs
    <2>3. call' = [call EXCEPT ![c] = n]
      BY <1>1, <1>7, <2>1 DEF RefusedThere
    <2>4. call'[c] = n
      BY <1>1, <2>3
    <2>5. call[c].who = "zmk" => call[c].step \in Kept
      BY <1>4, <1>7, ScriptSets DEF Probing, Kept
    <2>6. CallOK(c)'
      BY <1>5, <2>2, <2>4, <2>5 DEF CallOK, Picking, Connecting
    <2> QED BY <1>1, <1>2, <1>5, <2>2, <2>3, <2>6, ExchangeTypes, Advanced
  <1> QED BY <1>6, <1>7

LEMMA GivenUpHolds ==
    ASSUME Held, NEW c \in Callers, call[c].step \in Steps, call[c].pc \in {"pick", "conn"},
           NEW w, NEW next, NEW heard, Exchanged(c, w, next, heard),
           GivenUp(c, next, heard) \/ Served(c, next, heard)
    PROVE  Held' /\ call[c].pc = "conn" /\ Serving(c) /\ ServeGoes(call[c].who, call[c].step, w.good)
  <1>1. call \in [Callers -> Calling] /\ call[c] \in Calling /\ aborted \in BOOLEAN
        /\ slipped \in BOOLEAN /\ cli \in Client /\ CallOK(c) /\ ident \in Identity
    BY DEF Held, TypeOK
  <1>2. UNCHANGED <<setup, order, rounds, faults, slipped>> /\ Told(c, heard)
        /\ next = Goes(call[c].step, w.good) /\ next \in {"drop", "throw", "serve"}
        /\ ident' \in Identity
    BY <1>1, ExchangeTypes DEF GivenUp, Served, Exchanged
  <1>3. next \notin Steps
    BY <1>2, PartDomains, ScriptParts
  <1>4. call[c].pc = "conn" /\ Serving(c) /\ call[c].who \in Adapters
        /\ ServeGoes(call[c].who, call[c].step, w.good)
    <2>1. ASSUME call[c].who \in Adapters, ProbeGoes(call[c].who, call[c].step, w.good)
          PROVE  FALSE
      <3>1. next \in Steps \cup {"found", "no"}
        BY <1>2, <2>1, ScriptSets DEF ProbeGoes
      <3> QED BY <1>2, <1>3, <3>1
    <2>2. call[c].pc # "pick"
      BY <2>1, ExchangeTypes
    <2>3. call[c].pc = "conn" /\ call[c].who \in Adapters /\ (Probing(c) \/ Serving(c))
      BY <1>1, <2>2, ExchangeTypes DEF CallOK, Connecting
    <2>4. ~Probing(c)
      BY <2>1, <2>3, ExchangeTypes
    <2> QED BY <2>3, <2>4, ExchangeTypes
  <1>5. CASE GivenUp(c, next, heard)
    <2>1. PICK n : n = [call[c] EXCEPT !.pc = "failed"]
      OBVIOUS
    <2>2. n \in Calling /\ n.pc = "failed" /\ n.who = call[c].who /\ n.step = call[c].step
      BY <1>1, <2>1 DEF Calling, PCs
    <2>3. call' = [call EXCEPT ![c] = n]
      BY <1>1, <1>5, <2>1 DEF GivenUp
    <2>4. call'[c] = n
      BY <1>1, <2>3
    <2>5. CASE next = "drop"
      <3>1. CloseAbort(call[c].who, c)
        BY <1>5, <2>5 DEF GivenUp
      <3>2. /\ LetGo(c) /\ aborted' \in BOOLEAN /\ (aborted => aborted')
            /\ cli'.user = c => aborted'
        BY <1>4, <3>1, CloseAborts
      <3>3. CallOK(c)'
        BY <2>2, <2>4, <3>2 DEF CallOK, Picking, Connecting
      <3> QED BY <1>1, <1>2, <1>4, <2>2, <2>3, <3>2, <3>3, ExchangeTypes, Advanced
    <2>6. CASE next = "throw"
      <3>1. cli' = heard /\ aborted' = aborted
        BY <1>5, <2>6 DEF GivenUp
      <3>2. call[c].step \in Kept
        BY <1>2, <1>4, <2>6 DEF ServeGoes, Kept
      <3>3. CallOK(c)'
        BY <2>2, <2>4, <3>2 DEF CallOK, Picking, Connecting
      <3> QED BY <1>1, <1>2, <1>4, <2>2, <2>3, <3>1, <3>3, ExchangeTypes, Advanced
    <2> QED BY <1>5, <2>5, <2>6 DEF GivenUp
  <1>6. CASE Served(c, next, heard)
    <2>0. PICK v, b : v = ServiceOf(call[c].step) /\ b = Noticed(call[c].step)
      OBVIOUS
    <2>1. PICK n : n = [call[c] EXCEPT !.pc = "service", !.svc = v, !.note = b]
      OBVIOUS
    <2>2. v \in Adapters \cup {"dongle", None} /\ b \in BOOLEAN
      BY <1>1, <2>0 DEF ServiceOf, Noticed, Client, Adapters
    <2>3. n \in Calling /\ n.pc = "service" /\ n.who = call[c].who /\ n.hears = call[c].hears
      BY <1>1, <2>1, <2>2 DEF Calling, PCs
    <2>4. call' = [call EXCEPT ![c] = n] /\ cli' = heard /\ aborted' = aborted
      BY <1>1, <1>6, <2>0, <2>1 DEF Served
    <2>5. call'[c] = n /\ n.hears = "yes"
      BY <1>1, <1>4, <2>3, <2>4 DEF Serving
    <2>6. CallOK(c)'
      BY <1>4, <2>3, <2>5, Vocabulary DEF CallOK, Picking, Connecting
    <2> QED BY <1>1, <1>2, <1>4, <2>3, <2>4, <2>6, ExchangeTypes, Advanced
  <1> QED BY <1>4, <1>5, <1>6

LEMMA EnterHolds ==
    ASSUME Held, NEW c \in Callers, call[c].step \in Steps,
           NEW w, NEW next, NEW heard, Exchanged(c, w, next, heard),
           next = "found", call[c].pc = "conn", Enter(c, heard)
    PROVE  /\ Held' /\ Entered(c, heard) /\ Probing(c) /\ heard \in Client /\ heard.by = call[c].who
           /\ heard.user = c
  <1>1. CallOK(c) /\ ClientOK /\ cli \in Client
    BY DEF Held, TypeOK
  <1>2. UNCHANGED <<setup, order, rounds, faults>> /\ Told(c, heard)
        /\ next = Goes(call[c].step, w.good)
    BY DEF Exchanged
  <1>3. "found" \notin Steps
    BY PartDomains, ScriptParts
  <1>4. call[c].who \in Adapters /\ Probing(c)
    <2>1. CASE Serving(c)
      <3>1. ServeGoes(call[c].who, call[c].step, w.good) /\ call[c].who \in Adapters
        BY <2>1, ExchangeTypes
      <3>2. next \in Steps \cup {"serve", "drop", "throw"}
        BY <1>2, <3>1, ScriptSets DEF ServeGoes
      <3> QED BY <1>3, <3>2
    <2> QED BY <1>1, <2>1, ExchangeTypes DEF CallOK, Connecting
  <1>5. heard \in Client /\ heard.by = call[c].who /\ heard.user = c /\ heard.open = cli.open
        /\ heard.by # None
    BY <1>2, <1>4, Vocabulary DEF Told, Probing, Holds
  <1>6. heard.by \in RawHid => heard.open
    BY <1>1, <1>2, <1>5 DEF Told, ClientOK
  <1>7. Entered(c, heard)
    BY <1>5, <1>6, Entering DEF Held
  <1>8. \A d \in Callers \ {c} : cli.user # d
    BY <1>4 DEF Probing, Holds
  <1>9. /\ call[c].hears = "pipes" => call[c].who = "zmk"
        /\ call[c].who # "zmk" => heard.open
    BY <1>4, <1>5 DEF Probing
  <1> QED BY <1>2, <1>4, <1>5, <1>6, <1>7, <1>8, <1>9, EnteredHolds, ExchangeTypes

LEMMA ExchangeHolds ==
    ASSUME Held, NEW c \in Callers, Exchange(c)
    PROVE  Held'
  <1>1. PICK w, next, heard :
            /\ Exchanged(c, w, next, heard)
            /\ \/ GoesOn(c, next, heard)
               \/ FoundInPick(c, next, heard)
               \/ next = "found" /\ call[c].pc = "conn" /\ Enter(c, heard)
               \/ RefusedThere(c, next)
               \/ GivenUp(c, next, heard)
               \/ Served(c, next, heard)
    BY Exchanging
  <1>2. call[c].step \in Steps /\ call[c].pc \in {"pick", "conn"}
    BY Exchanging
  <1> QED BY <1>1, <1>2, GoesOnHolds, FoundHolds, EnterHolds, RefusedHolds, GivenUpHolds

(***************************************************************************)
(* The signal, the store, a new transport.                                 *)
(***************************************************************************)
LEMMA AbortHolds ==
    ASSUME Held, NEW c \in Callers, Abort(c)
    PROVE  Held'
  <1>1. call \in [Callers -> Calling] /\ call[c] \in Calling /\ aborted \in BOOLEAN
        /\ slipped \in BOOLEAN /\ cli \in Client /\ CallOK(c) /\ ClientOK /\ ident \in Identity
        /\ barred \in BOOLEAN /\ astray \in BOOLEAN /\ missed \in 0..MaxMissed
    BY DEF Held, TypeOK
  <1>2. call[c].pc \in {"picked", "conn", "service"}
        /\ UNCHANGED <<setup, order, missed, astray, ident, rounds, slipped, barred>>
        /\ faults' \in 0..MaxFaults
    BY BoundsAssumption DEF Abort, historyVars, Held, TypeOK
  <1>3. call[c].who \in Adapters
    BY <1>1, <1>2 DEF CallOK, Calling
  <1>4. PICK n : n = [call[c] EXCEPT !.sig = TRUE]
    OBVIOUS
  <1>5. n \in Calling /\ n.pc = call[c].pc /\ n.who = call[c].who /\ n.step = call[c].step
        /\ n.hears = call[c].hears
    BY <1>1, <1>4 DEF Calling
  <1>6. call' = [call EXCEPT ![c] = n] /\ call'[c] = n
    BY <1>1, <1>4 DEF Abort
  <1>7. ASSUME LetGo(c), aborted' \in BOOLEAN, aborted => aborted', Connecting(c)'
        PROVE  Held'
    <2>1. cli'.user = c => cli.user = c
      BY <1>1, <1>7, ClientTypes, Vocabulary DEF LetGo, Client
    <2>2. CallOK(c)'
      BY <1>1, <1>2, <1>5, <1>6, <1>7, <2>1 DEF CallOK, Picking
    <2> QED BY <1>1, <1>2, <1>5, <1>6, <1>7, <2>2, Advanced
  <1>8. CASE call[c].hears = "yes"
    <2>1. CloseAbort(call[c].who, c)
      BY <1>8 DEF Abort
    <2>2. /\ LetGo(c) /\ aborted' \in BOOLEAN /\ (aborted => aborted')
          /\ cli'.user = c => aborted'
      BY <1>3, <2>1, CloseAborts
    <2>3. CASE call[c].pc = "conn"
      <3>1. Serving(c) /\ call[c].who # "zmk"
        BY <1>1, <1>8, <2>3, ScriptSets DEF CallOK, Connecting, Probing, Serving
      <3>2. cli'.user # c /\ aborted'
        <4>1. CASE call[c].who = "remappr"
          BY <2>1, <4>1, ClientTypes, Vocabulary DEF CloseAbort, RawHid
        <4>2. CASE call[c].who \in RawHid
          <5>1. IF Mine(c) THEN cli' = NoClient /\ aborted' = TRUE ELSE UNCHANGED <<cli, aborted>>
            BY <2>1, <4>2 DEF CloseAbort, RawHid
          <5> QED BY <3>1, <5>1, ClientTypes, Vocabulary DEF Serving, Holds, Mine
        <4> QED BY <1>3, <3>1, <4>1, <4>2 DEF Adapters, RawHid
      <3>3. Serving(c)'
        BY <1>5, <1>6, <3>1, <3>2 DEF Serving, ServeSteps
      <3> QED BY <1>7, <2>2, <3>3 DEF Connecting
    <2>4. CASE call[c].pc # "conn"
      BY <1>5, <1>6, <1>7, <2>2, <2>4 DEF Connecting
    <2> QED BY <2>3, <2>4
  <1>9. CASE call[c].hears = "pipes"
    <2>1. cli' = (IF cli.user = c THEN [cli EXCEPT !.open = FALSE] ELSE cli) /\ UNCHANGED aborted
      BY <1>9 DEF Abort
    <2>2. call[c].who = "zmk" /\ (cli.user = c => cli.by = "zmk")
      BY <1>1, <1>2, <1>3, <1>9 DEF CallOK, Connecting, Probing, Serving, ClientOK
    <2>3. LetGo(c)
      BY <2>1, <2>2 DEF LetGo
    <2>4. cli'.user = cli.user /\ cli'.by = cli.by
      BY <1>1, <2>1 DEF Client
    <2>5. Probing(c) => Probing(c)'
      BY <1>5, <1>6, <2>2, <2>4 DEF Probing, Holds, ProbeSteps
    <2>6. ~Serving(c)
      BY <1>9 DEF Serving
    <2>7. Connecting(c)'
      BY <1>1, <1>5, <1>6, <2>5, <2>6 DEF CallOK, Connecting
    <2> QED BY <1>1, <1>7, <2>1, <2>3, <2>7
  <1>10. CASE call[c].hears \notin {"yes", "pipes"}
    <2>1. UNCHANGED <<cli, aborted>>
      BY <1>10 DEF Abort
    <2>2. Connecting(c)'
      BY <1>1, <1>5, <1>6, <2>1 DEF CallOK, Connecting, Probing, Serving, Holds, ProbeSteps, ServeSteps
    <2> QED BY <1>1, <1>7, <2>1, <2>2 DEF LetGo
  <1> QED BY <1>8, <1>9, <1>10

\* What a step that leaves the callers and the transport alone keeps.
LEMMA Untouched ==
    ASSUME Held, TypeOK', UNCHANGED <<setup, aborted, cli, call>>
    PROVE  Held'
  <1>1. SettingOK'
    BY DEF Held, SettingOK, KnownHid
  <1>2. ClientOK'
    BY DEF Held, ClientOK
  <1>3. \A c \in Callers : CallOK(c)'
    BY DEF Held, CallOK, Picking, Connecting, Probing, Serving, Holds, ProbeSteps, ServeSteps
  <1> QED BY <1>1, <1>2, <1>3 DEF Held

LEMMA StoreHolds ==
    ASSUME Held, Prepare \/ Warmed \/ ReadFails \/ Saved \/ SaveFails
    PROVE  Held'
  <1>1. UNCHANGED <<setup, order, transportVars, call, rounds, barred>>
    BY DEF Prepare, Warmed, ReadFails, Saved, SaveFails, historyVars
  <1>2. ident \in Identity /\ faults \in 0..MaxFaults /\ MaxFaults \in Nat
    BY BoundsAssumption DEF Held, TypeOK
  <1>3. ident' \in Identity
    <2>1. CASE Prepare
      BY <1>2, <2>1 DEF Prepare, Identity
    <2>2. CASE Warmed
      BY <1>2, <2>2 DEF Warmed, Identity
    <2>3. CASE ReadFails
      BY <1>2, <2>3 DEF ReadFails, Identity
    <2>4. CASE Saved
      BY <1>2, <2>4 DEF Saved, Identity
    <2>5. CASE SaveFails
      BY <1>2, <2>5 DEF SaveFails, Identity
    <2> QED BY <2>1, <2>2, <2>3, <2>4, <2>5
  <1>4. faults' \in 0..MaxFaults
    BY <1>2 DEF Prepare, Warmed, ReadFails, Saved, SaveFails
  <1>5. slipped' \in BOOLEAN
    BY DEF Held, TypeOK, Prepare, Warmed, ReadFails, Saved, SaveFails, historyVars
  <1>6. TypeOK'
    BY <1>1, <1>3, <1>4, <1>5 DEF Held, TypeOK, transportVars
  <1> QED BY <1>1, <1>6, Untouched DEF transportVars

\* Everybody idle, and nobody at the streams.
LEMMA AtRest ==
    cli = NoClient /\ call = [c \in Callers |-> Idle] => ClientOK /\ \A c \in Callers : CallOK(c)
  <1> SUFFICES ASSUME cli = NoClient, call = [c \in Callers |-> Idle]
               PROVE  ClientOK /\ \A c \in Callers : CallOK(c)
    OBVIOUS
  <1>1. NoClient.by = None /\ None \notin RawHid /\ NoClient.user = None
    BY ClientTypes, Vocabulary
  <1>2. ClientOK
    BY <1>1, Vocabulary DEF ClientOK
  <1>3. ASSUME NEW c \in Callers
        PROVE  CallOK(c)
    <2>1. call[c].pc = "idle" /\ call[c].hears = "no" /\ cli.user # c
      BY <1>1, Vocabulary DEF Idle
    <2> QED BY <2>1 DEF CallOK, Picking, Connecting
  <1> QED BY <1>2, <1>3

LEMMA ReopenHolds ==
    ASSUME Held, NEW restart \in BOOLEAN, Reopen(restart)
    PROVE  Held'
  <1>1. ident \in Identity /\ rounds \in 1..MaxRounds /\ MaxRounds \in Nat /\ slipped \in BOOLEAN
    BY BoundsAssumption DEF Held, TypeOK
  <1>2. /\ rounds' = rounds + 1 /\ rounds < MaxRounds
        /\ aborted' = FALSE /\ cli' = NoClient /\ astray' = FALSE
        /\ call' = [c \in Callers |-> Idle]
        /\ ident' = IF restart
                    THEN [ident EXCEPT !.warm = "cold", !.cached = 0, !.mem = 0, !.saving = 0]
                    ELSE ident
        /\ slipped' = (slipped \/ (restart /\ ident.saving # 0))
        /\ UNCHANGED <<setup, order, missed, faults, barred>>
    BY DEF Reopen
  <1>3. ident' \in Identity
    <2>1. PICK r : r = [ident EXCEPT !.warm = "cold", !.cached = 0, !.mem = 0, !.saving = 0]
      OBVIOUS
    <2>2. r \in Identity
      BY <1>1, <2>1 DEF Identity
    <2>3. ident' = r \/ ident' = ident
      BY <1>2, <2>1
    <2> QED BY <1>1, <2>2, <2>3
  <1>4. slipped' \in BOOLEAN /\ rounds' \in 1..MaxRounds
    BY <1>1, <1>2
  <1>5. call' \in [Callers -> Calling] /\ cli' \in Client
    BY <1>2, ClientTypes
  <1>6. TypeOK'
    BY <1>2, <1>3, <1>4, <1>5 DEF Held, TypeOK
  <1>7. SettingOK'
    BY <1>2 DEF Held, SettingOK, KnownHid
  <1>8. (cli = NoClient /\ call = [c \in Callers |-> Idle] => ClientOK /\ \A c \in Callers : CallOK(c))'
    BY AtRest, PTL
  <1> QED BY <1>2, <1>6, <1>7, <1>8 DEF Held

(***************************************************************************)
(* The order in which the adapters are asked.                              *)
(***************************************************************************)
LEMMA Three ==
    ASSUME NEW x, NEW y, NEW z, x # y, x # z, y # z
    PROVE  IsFiniteSet({x, y, z}) /\ Cardinality({x, y, z}) = 3
  <1>1. IsFiniteSet({x}) /\ Cardinality({x}) = 1
    BY FS_Singleton
  <1>2. IsFiniteSet({x} \cup {y}) /\ Cardinality({x} \cup {y}) = 2
    <2>1. Cardinality({x} \cup {y}) = IF y \in {x} THEN Cardinality({x}) ELSE Cardinality({x}) + 1
      BY <1>1, FS_AddElement
    <2>2. y \notin {x}
      OBVIOUS
    <2> QED BY <1>1, <2>1, <2>2, FS_AddElement
  <1>3. /\ IsFiniteSet(({x} \cup {y}) \cup {z})
        /\ Cardinality(({x} \cup {y}) \cup {z}) = 3
    <2>1. Cardinality(({x} \cup {y}) \cup {z}) =
             IF z \in {x} \cup {y} THEN Cardinality({x} \cup {y}) ELSE Cardinality({x} \cup {y}) + 1
      BY <1>2, FS_AddElement
    <2>2. z \notin {x} \cup {y}
      OBVIOUS
    <2> QED BY <1>2, <2>1, <2>2, FS_AddElement
  <1>4. ({x} \cup {y}) \cup {z} = {x, y, z}
    OBVIOUS
  <1> QED BY <1>3, <1>4

LEMMA Four ==
    ASSUME NEW w, NEW x, NEW y, NEW z, w # x, w # y, w # z, x # y, x # z, y # z
    PROVE  IsFiniteSet({w, x, y, z}) /\ Cardinality({w, x, y, z}) = 4
  <1>1. IsFiniteSet({x, y, z}) /\ Cardinality({x, y, z}) = 3
    BY Three
  <1>2. Cardinality({x, y, z} \cup {w}) =
           IF w \in {x, y, z} THEN Cardinality({x, y, z}) ELSE Cardinality({x, y, z}) + 1
    BY <1>1, FS_AddElement
  <1>3. w \notin {x, y, z}
    OBVIOUS
  <1>4. IsFiniteSet({x, y, z} \cup {w})
    BY <1>1, FS_AddElement
  <1>5. {x, y, z} \cup {w} = {w, x, y, z}
    OBVIOUS
  <1> QED BY <1>1, <1>2, <1>3, <1>4, <1>5

Ordered(registered, sorted) ==
    \A i, j \in DOMAIN sorted : i < j => Earlier(registered, sorted[i], sorted[j])

LEMMA Placed ==
    ASSUME NEW registered \in Orders
    PROVE  /\ \A a \in Adapters : Place(registered, a) \in Nat
           /\ \A a, b \in Adapters : a # b => Place(registered, a) # Place(registered, b)
  <1>1. registered \in Seq(Adapters)
        /\ \A a \in Adapters : \E i \in DOMAIN registered : registered[i] = a
    BY OrdersAssumption
  <1>2. \A a \in Adapters : Place(registered, a) \in DOMAIN registered
                            /\ registered[Place(registered, a)] = a
    BY <1>1 DEF Place
  <1>3. DOMAIN registered \subseteq Nat
    BY <1>1
  <1> QED BY <1>2, <1>3

\* Some way of sorting those that are asked.
LEMMA Sortable ==
    ASSUME NEW registered \in Orders
    PROVE  /\ IsFiniteSet(Asked) /\ Cardinality(Asked) \in Nat
           /\ \E sorted \in [1..Cardinality(Asked) -> Asked] : Ordered(registered, sorted)
  <1>1. PICK x, y : /\ {x, y} = {"via", "zmk"} /\ x # y
                    /\ Place(registered, x) < Place(registered, y)
    <2>1. /\ Place(registered, "via") \in Nat /\ Place(registered, "zmk") \in Nat
          /\ Place(registered, "via") # Place(registered, "zmk")
      BY Placed DEF Adapters
    <2>2. CASE Place(registered, "via") < Place(registered, "zmk")
      BY <2>2
    <2>3. CASE Place(registered, "zmk") < Place(registered, "via")
      <3>1. {"zmk", "via"} = {"via", "zmk"}
        OBVIOUS
      <3> QED BY <2>3, <3>1
    <2> QED BY <2>1, <2>2, <2>3
  <1>2. (x = "via" /\ y = "zmk") \/ (x = "zmk" /\ y = "via")
    BY <1>1
  <1>3. Earlier(registered, "vial", x) /\ Earlier(registered, "vial", y) /\ Earlier(registered, x, y)
    BY <1>1, <1>2 DEF Earlier, Rank, Priority
  <1>4. CASE setup.vid = "1209"
    <2>1. Asked = {"remappr", "vial", x, y}
      BY <1>2, <1>4 DEF Asked, Rank, Adapters
    <2>2. Cardinality(Asked) = 4 /\ IsFiniteSet(Asked)
      <3>1. PICK a, b : a = "remappr" /\ b = "vial"
        OBVIOUS
      <3>2. a # b /\ a # x /\ a # y /\ b # x /\ b # y /\ x # y
        BY <1>2, <3>1
      <3>3. IsFiniteSet({a, b, x, y}) /\ Cardinality({a, b, x, y}) = 4
        BY <3>2, Four
      <3> QED BY <2>1, <3>1, <3>3
    <2>3. \A a \in {"vial", x, y} : Earlier(registered, "remappr", a)
      BY <1>2, <1>4 DEF Earlier, Rank
    <2>4. PICK f : f = [i \in 1..4 |-> IF i = 1 THEN "remappr" ELSE IF i = 2 THEN "vial"
                                       ELSE IF i = 3 THEN x ELSE y]
      OBVIOUS
    <2>5. f \in [1..4 -> Asked] /\ f[1] = "remappr" /\ f[2] = "vial" /\ f[3] = x /\ f[4] = y
      BY <2>1, <2>4
    <2>6. Ordered(registered, f)
      BY <1>3, <2>3, <2>5 DEF Ordered
    <2> QED BY <2>2, <2>5, <2>6
  <1>5. CASE setup.vid = "3434"
    <2>1. Asked = {"keychron", "vial", x, y}
      BY <1>2, <1>5 DEF Asked, Rank, Adapters
    <2>2. Cardinality(Asked) = 4 /\ IsFiniteSet(Asked)
      <3>1. PICK a, b : a = "keychron" /\ b = "vial"
        OBVIOUS
      <3>2. a # b /\ a # x /\ a # y /\ b # x /\ b # y /\ x # y
        BY <1>2, <3>1
      <3>3. IsFiniteSet({a, b, x, y}) /\ Cardinality({a, b, x, y}) = 4
        BY <3>2, Four
      <3> QED BY <2>1, <3>1, <3>3
    <2>3. \A a \in {"vial", x, y} : Earlier(registered, "keychron", a)
      BY <1>2, <1>5 DEF Earlier, Rank
    <2>4. PICK f : f = [i \in 1..4 |-> IF i = 1 THEN "keychron" ELSE IF i = 2 THEN "vial"
                                       ELSE IF i = 3 THEN x ELSE y]
      OBVIOUS
    <2>5. f \in [1..4 -> Asked] /\ f[1] = "keychron" /\ f[2] = "vial" /\ f[3] = x /\ f[4] = y
      BY <2>1, <2>4
    <2>6. Ordered(registered, f)
      BY <1>3, <2>3, <2>5 DEF Ordered
    <2> QED BY <2>2, <2>5, <2>6
  <1>6. CASE setup.vid \notin {"1209", "3434"}
    <2>1. Asked = {"vial", x, y}
      BY <1>2, <1>6 DEF Asked, Rank, Adapters
    <2>2. Cardinality(Asked) = 3 /\ IsFiniteSet(Asked)
      <3>1. PICK a : a = "vial"
        OBVIOUS
      <3>2. a # x /\ a # y /\ x # y
        BY <1>2, <3>1
      <3>3. IsFiniteSet({a, x, y}) /\ Cardinality({a, x, y}) = 3
        BY <3>2, Three
      <3> QED BY <2>1, <3>1, <3>3
    <2>4. PICK f : f = [i \in 1..3 |-> IF i = 1 THEN "vial" ELSE IF i = 2 THEN x ELSE y]
      OBVIOUS
    <2>5. f \in [1..3 -> Asked] /\ f[1] = "vial" /\ f[2] = x /\ f[3] = y
      BY <2>1, <2>4
    <2>6. Ordered(registered, f)
      BY <1>3, <2>5 DEF Ordered
    <2> QED BY <2>2, <2>5, <2>6
  <1> QED BY <1>4, <1>5, <1>6

\* Over HID with a vendor id everybody with a chance is asked once, in order.
LEMMA CandidatesSorted ==
    ASSUME NEW registered \in Orders, KnownHid
    PROVE  /\ Candidates(registered) \in [1..Cardinality(Asked) -> Asked]
           /\ Candidates(registered) \in Seq(Adapters)
           /\ Ordered(registered, Candidates(registered))
           /\ \A a \in Asked : \E i \in DOMAIN Candidates(registered) : Candidates(registered)[i] = a
  <1>1. Cardinality(Asked) \in Nat /\ IsFiniteSet(Asked)
        /\ \E sorted \in [1..Cardinality(Asked) -> Asked] : Ordered(registered, sorted)
    BY Sortable
  <1>2. PICK f : f = Candidates(registered)
    OBVIOUS
  <1>3. f \in [1..Cardinality(Asked) -> Asked] /\ Ordered(registered, f)
    BY <1>1, <1>2 DEF Candidates, Ordered, KnownHid
  <1>4. Asked \subseteq Adapters
    BY DEF Asked
  <1>5. f \in Seq(Adapters)
    BY <1>1, <1>3, <1>4
  <1>6. \A a \in Adapters : ~Earlier(registered, a, a)
    BY Placed DEF Earlier, Rank, Priority
  <1>7. IsInjective(f)
    BY <1>1, <1>3, <1>4, <1>6 DEF IsInjective, Ordered
  <1>8. f \in Surjection(1..Cardinality(Asked), Asked)
    <2>1. PICK n \in Nat : n = Cardinality(Asked)
      BY <1>1
    <2>2. Cardinality(1..n) = n
      <3>1. IsFiniteSet(1..n) /\ Cardinality(1..n) = IF 1 > n THEN 0 ELSE n - 1 + 1
        <4>1. 1 \in Int /\ n \in Int
          OBVIOUS
        <4> QED BY <4>1, FS_Interval, Zenon
      <3> QED BY <3>1
    <2>3. f \in Injection(1..n, Asked)
      BY <1>3, <1>7, <2>1 DEF Injection
    <2> QED BY <1>1, <2>1, <2>2, <2>3, FS_Injection
  <1> QED BY <1>2, <1>3, <1>5, <1>8 DEF Surjection

(***************************************************************************)
(* Held is invariant: TypeOK and LocksReleased.                            *)
(***************************************************************************)
LEMMA InitHolds == Init => Held
  <1> SUFFICES ASSUME Init
               PROVE  Held
    OBVIOUS
  <1>1. PICK s \in Setups, saved \in BOOLEAN :
            setup = [board |-> s.board, kind |-> s.kind, vid |-> s.vid, saved |-> saved]
    BY DEF Init
  <1>2. setup.board = s.board /\ setup.kind = s.kind /\ setup.vid = s.vid
    BY <1>1
  <1>3. SettingOK
    BY <1>2, SetupsAssumption DEF SettingOK, KnownHid
  <1>4. PICK registered \in Orders : order = Candidates(registered)
    BY DEF Init
  <1>5. order \in Seq(Adapters)
    <2>1. CASE KnownHid
      BY <1>4, <2>1, CandidatesSorted
    <2>2. CASE ~KnownHid
      <3>1. order = registered
        BY <1>4, <2>2 DEF Candidates, KnownHid
      <3> QED BY <3>1, OrdersAssumption
    <2> QED BY <2>1, <2>2
  <1>6. /\ aborted = FALSE /\ cli = NoClient /\ missed = 0 /\ astray = FALSE
        /\ call = [c \in Callers |-> Idle]
        /\ rounds = 1 /\ faults = 0 /\ slipped = FALSE /\ barred = FALSE
    BY DEF Init
  <1>7. ident \in Identity
    BY DEF Init, Identity
  <1>8. call \in [Callers -> Calling] /\ cli \in Client
    BY <1>6, ClientTypes
  <1>9. 1 \in 1..MaxRounds /\ 0 \in 0..MaxMissed /\ 0 \in 0..MaxFaults
    BY BoundsAssumption
  <1>10. TypeOK
    BY <1>5, <1>6, <1>7, <1>8, <1>9 DEF TypeOK
  <1> QED BY <1>3, <1>6, <1>10, AtRest DEF Held

LEMMA StepHolds == Held /\ [Next]_vars => Held'
  <1> SUFFICES ASSUME Held, [Next]_vars
               PROVE  Held'
    OBVIOUS
  <1>1. ASSUME NEW c \in Callers,
               Pick(c) \/ Name(c) \/ TryNext(c) \/ Connect(c) \/ Exchange(c) \/ Abort(c)
        PROVE  Held'
    BY <1>1, PickHolds, TryHolds, ConnectHolds, ExchangeHolds, AbortHolds
  <1>2. CASE Prepare \/ Warmed \/ ReadFails \/ Saved \/ SaveFails
    BY <1>2, StoreHolds
  <1>3. CASE \E restart \in BOOLEAN : Reopen(restart)
    BY <1>3, ReopenHolds
  <1>4. CASE UNCHANGED vars
    <2>1. TypeOK'
      BY <1>4 DEF Held, TypeOK, vars, transportVars, historyVars
    <2> QED BY <1>4, <2>1, Untouched DEF vars, transportVars
  <1> QED BY <1>1, <1>2, <1>3, <1>4 DEF Next

THEOREM HeldAlways == Spec => []Held
  BY InitHolds, StepHolds, PTL DEF Spec

\* Every state keeps its types: the client of the streams, the callers' scripts,
\* the identity (registry.ts, identity.ts).
THEOREM TypeTheorem == Spec => []TypeOK
  <1>1. Held => TypeOK
    BY DEF Held
  <1> QED BY <1>1, HeldAlways, PTL

\* Once no call is running the streams are free, or aborted, or held for a cached
\* probe, by a service, or by one of the connects that keep them (Refused, Exchange).
THEOREM LocksTheorem == Spec => []LocksReleased
  <1>1. Held => LocksReleased
    <2> SUFFICES ASSUME Held, \A c \in Callers : call[c].pc \notin {"pick", "conn"},
                        cli.by # None, ~aborted, cli.user # "cache"
                 PROVE  \E c \in Callers : cli.user = c
                           /\ \/ call[c].pc = "service"
                              \/ /\ call[c].pc = "failed"
                                 /\ call[c].step \in {"v_keys", "l_keys", "k_keys", "z_info"}
      BY DEF LocksReleased
    <2>1. cli.user \in Callers
      BY DEF Held, ClientOK, TypeOK, Client
    <2> QED BY <2>1 DEF Held, CallOK, Kept
  <1> QED BY <1>1, HeldAlways, PTL

(***************************************************************************)
(* The identity: BondKept.                                                 *)
(***************************************************************************)
AtHandshake(c) == call[c].pc = "conn" /\ call[c].step \in {"r_begin", "r_finish"} /\ cli.user = c

\* As long as nothing slipped there is one identity, it is in the store or on its
\* way there, every board knows it or none, and every handshake uses it.
OneIdentity ==
    /\ ident.mem = 0 /\ ident.host \in {0, ident.minted} /\ ident.saving \in {0, ident.minted}
    /\ ident.bond \in {0, ident.minted} /\ ident.minted \in {ident.host, ident.saving}
    /\ ident.warm # "ready" => ident.saving = 0
    /\ ident.warm = "ready" => ident.cached = ident.minted
    /\ \A c \in Callers : AtHandshake(c) => cli.key = ident.minted /\ ident.minted # 0

Bond == BondKept /\ (~slipped => OneIdentity)

LEMMA FinishStep ==
    ASSUME NEW s \in Steps, Script[s].ask = "finish"
    PROVE  s = "r_finish"
  <1>1. PICK a \in Adapters : s \in ProbeSteps(a) \cup ServeSteps(a)
    BY ScriptSets
  <1>2. CASE a = "remappr"
    BY <1>1, <1>2, ScriptSets, RemapprRows DEF Step
  <1>3. CASE a = "via"
    BY <1>1, <1>3, ScriptSets, ViaRows DEF Step
  <1>4. CASE a = "vial"
    BY <1>1, <1>4, ScriptSets, VialRows DEF Step
  <1>5. CASE a = "keychron"
    BY <1>1, <1>5, ScriptSets, KeychronRows DEF Step
  <1>6. CASE a = "zmk"
    BY <1>1, <1>6, ScriptSets, ZmkRows DEF Step
  <1> QED BY <1>2, <1>3, <1>4, <1>5, <1>6, Vocabulary

\* A step that brings no identity into use.
LEMMA BondAside ==
    ASSUME Bond, UNCHANGED <<ident, slipped>>, barred' => barred \/ slipped,
           \A c \in Callers : AtHandshake(c)' => AtHandshake(c) /\ cli'.key = cli.key
    PROVE  Bond'
  BY DEF Bond, BondKept, OneIdentity

LEMMA BondBystanders ==
    ASSUME Bond, NEW c \in Callers, Moved(c), UNCHANGED <<ident, slipped>>,
           barred' => barred \/ slipped,
           AtHandshake(c)' => AtHandshake(c) /\ cli'.key = cli.key
    PROVE  Bond'
  <1>1. \A d \in Callers \ {c} : AtHandshake(d)' => AtHandshake(d) /\ cli'.key = cli.key
    BY DEF Moved, AtHandshake
  <1> QED BY <1>1, BondAside

LEMMA BondEntered ==
    ASSUME Held, Bond, NEW c \in Callers, NEW cl \in Client, Entered(c, cl), cl.user = c,
           \A d \in Callers \ {c} : cli.user # d, barred' => barred \/ slipped,
           cl.by # None
    PROVE  Bond'
  <1>1. call \in [Callers -> Calling] /\ call[c] \in Calling /\ ident \in Identity
    BY DEF Held, TypeOK
  <1>2. cli' = NoClient \/ cli'.user = c
    BY DEF Entered, Client
  <1>3. \A d \in Callers \ {c} : ~AtHandshake(d)'
    BY <1>2, ClientTypes, Vocabulary DEF AtHandshake
  <1>4. CASE /\ AfterProbe(cl) = "r_begin" /\ LoadIdentity /\ cli' = [cl EXCEPT !.key = Key]
    <2>1. cli'.key = Key
      BY <1>4 DEF Client
    <2>2. slipped' = (slipped \/ ident.warm # "ready")
      BY <1>4 DEF LoadIdentity
    <2>3. CASE slipped'
      BY <2>3 DEF Bond, BondKept
    <2>4. CASE ~slipped'
      <3>1. ~slipped /\ ident.warm = "ready" /\ OneIdentity /\ ~barred'
        BY <2>2, <2>4 DEF Bond, BondKept
      <3>2. Loaded = ident.minted /\ ident.minted \in Nat
        BY <1>1, <3>1 DEF Loaded, OneIdentity, Identity
      <3>3. CASE ident.minted # 0
        <4>1. ident' = ident /\ cli'.key = ident.minted
          BY <1>4, <2>1, <3>2, <3>3 DEF LoadIdentity, Key
        <4> QED BY <1>3, <3>1, <3>3, <4>1 DEF Bond, BondKept, OneIdentity
      <3>4. CASE ident.minted = 0
        <4>1. Key = 1
          BY <3>2, <3>4 DEF Key
        <4>2. ident' = [ident EXCEPT !.minted = 1, !.cached = 1, !.saving = 1]
          BY <1>4, <3>1, <3>2, <3>4, <4>1 DEF LoadIdentity
        <4>3. /\ ident'.minted = 1 /\ ident'.cached = 1 /\ ident'.saving = 1 /\ ident'.mem = 0
              /\ ident'.host = 0 /\ ident'.bond = 0 /\ ident'.warm = "ready"
          BY <1>1, <3>1, <3>4, <4>2 DEF Identity, OneIdentity
        <4> QED BY <1>3, <2>1, <3>1, <4>1, <4>3 DEF Bond, BondKept, OneIdentity
      <3> QED BY <3>3, <3>4
    <2> QED BY <2>3, <2>4
  <1>5. CASE UNCHANGED <<ident, slipped>> /\ ~AtHandshake(c)'
    BY <1>3, <1>5, BondAside
  <1>6. CASE /\ call' = [call EXCEPT ![c].pc = "failed", ![c].step = "signal"]
             /\ UNCHANGED <<ident, slipped>>
    <2>1. ~AtHandshake(c)'
      BY <1>1, <1>6 DEF AtHandshake
    <2> QED BY <1>5, <1>6, <2>1
  <1>7. CASE /\ AfterProbe(cl) = "serve" /\ UNCHANGED <<ident, slipped>>
             /\ \E h \in {"pipes", "yes"} :
                  call' = [call EXCEPT ![c].pc = "service", ![c].step = "serve", ![c].hears = h,
                                     ![c].svc = IF cl.by = "zmk" THEN "zmk" ELSE "dongle"]
    <2>1. ~AtHandshake(c)'
      BY <1>1, <1>7 DEF AtHandshake
    <2> QED BY <1>5, <1>7, <2>1
  <1>8. CASE /\ AfterProbe(cl) \notin {"serve", "r_begin"} /\ UNCHANGED <<ident, slipped>>
             /\ \E h \in {"pipes", "yes"} :
                  call' = [call EXCEPT ![c].pc = "conn", ![c].step = AfterProbe(cl), ![c].hears = h]
    <2>1. ~AtHandshake(c)'
      BY <1>1, <1>8, AfterProbing DEF AtHandshake, Calling
    <2> QED BY <1>5, <1>8, <2>1
  <1> QED BY <1>4, <1>6, <1>7, <1>8 DEF Entered

LEMMA BondExchange ==
    ASSUME Held, Held', Bond, NEW c \in Callers, Exchange(c)
    PROVE  Bond'
  <1>1. PICK w, next, heard :
            /\ Exchanged(c, w, next, heard)
            /\ \/ GoesOn(c, next, heard)
               \/ FoundInPick(c, next, heard)
               \/ next = "found" /\ call[c].pc = "conn" /\ Enter(c, heard)
               \/ RefusedThere(c, next)
               \/ GivenUp(c, next, heard)
               \/ Served(c, next, heard)
    BY Exchanging
  <1>2. call[c].step \in Steps /\ call[c].pc \in {"pick", "conn"}
    BY Exchanging
  <1>3. /\ call \in [Callers -> Calling] /\ call[c] \in Calling /\ ident \in Identity /\ cli \in Client
        /\ CallOK(c)
    BY DEF Held, TypeOK
  <1> DEFINE v == Script[call[c].step].ask
  <1>4. Bonds(c, v) => AtHandshake(c) /\ call[c].step = "r_finish"
    <2> SUFFICES ASSUME Bonds(c, v)
                 PROVE  AtHandshake(c) /\ call[c].step = "r_finish"
      OBVIOUS
    <2>1. call[c].step = "r_finish" /\ cli.user = c
      BY <1>2, FinishStep DEF Bonds, Mine
    <2>2. call[c].pc = "conn"
      <3>1. call[c].pc = "pick" => call[c].step \in ProbeSteps(call[c].who) /\ call[c].who \in Adapters
        BY <1>1, <1>2, ExchangeTypes
      <3> QED BY <1>2, <2>1, <3>1, ScriptSets, Vocabulary
    <2> QED BY <2>1, <2>2 DEF AtHandshake
  <1>5. ~slipped /\ Bonds(c, v) => ~Bonded /\ cli.key = ident.minted
    BY <1>4 DEF Bond, OneIdentity, Bonded
  <1>6. barred' => barred \/ slipped
    BY <1>1, <1>5 DEF Exchanged
  <1>7. ASSUME slipped' = slipped, Bonding(c) \/ ident' = ident, cli'.key = cli.key \/ ~AtHandshake(c)',
               AtHandshake(c)' => AtHandshake(c),
               \A d \in Callers \ {c} : AtHandshake(d)' => AtHandshake(d) /\ cli'.key = cli.key
        PROVE  Bond'
    <2>1. CASE slipped
      BY <1>7, <2>1 DEF Bond, BondKept
    <2>2. CASE ~slipped
      <3>1. OneIdentity /\ ~barred'
        BY <1>6, <2>2 DEF Bond, BondKept
      <3>2. ident' = ident \/ ident' = [ident EXCEPT !.bond = ident.minted]
        BY <1>5, <1>7, <2>2 DEF Bonding
      <3>3. /\ ident'.mem = ident.mem /\ ident'.host = ident.host /\ ident'.saving = ident.saving
            /\ ident'.minted = ident.minted /\ ident'.warm = ident.warm /\ ident'.cached = ident.cached
            /\ ident'.bond \in {ident.bond, ident.minted}
        BY <1>3, <3>2 DEF Identity
      <3>4. \A d \in Callers : AtHandshake(d)' => AtHandshake(d) /\ cli'.key = cli.key
        BY <1>7
      <3> QED BY <3>1, <3>3, <3>4 DEF Bond, BondKept, OneIdentity
    <2> QED BY <2>1, <2>2
  <1>8. Told(c, heard) /\ heard.key = cli.key /\ heard.user = cli.user /\ heard \in Client
    BY <1>1 DEF Exchanged, Told
  <1>9. CASE GoesOn(c, next, heard)
    <2>1. call'[c].pc = call[c].pc /\ call'[c].step = next /\ next \in Steps
          /\ \A d \in Callers \ {c} : call'[d] = call[d]
      BY <1>3, <1>9 DEF GoesOn, Calling
    <2>2. cli' = heard /\ slipped' = slipped /\ Bonding(c)
      BY <1>9 DEF GoesOn
    <2>3. next \in {"r_begin", "r_finish"} /\ call[c].pc = "conn" => call[c].step = "r_begin"
      <3>1. next # "found" /\ next # "no" /\ next = Goes(call[c].step, w.good)
        BY <1>1, <2>1, PartDomains, ScriptParts DEF Exchanged
      <3>2. CASE call[c].pc = "conn" /\ Probing(c)
        <4>1. ProbeGoes(call[c].who, call[c].step, w.good) /\ call[c].who \in Adapters
          BY <1>1, <3>2, ExchangeTypes
        <4>2. next \in ProbeSteps(call[c].who)
          BY <3>1, <4>1 DEF ProbeGoes
        <4> QED BY <4>1, <4>2, ScriptSets, Vocabulary
      <3>3. CASE call[c].pc = "conn" /\ Serving(c)
        <4>1. ServeGoes(call[c].who, call[c].step, w.good)
          BY <1>1, <3>3, ExchangeTypes
        <4> QED BY <3>1, <4>1 DEF ServeGoes
      <3> QED BY <1>3, <3>2, <3>3 DEF CallOK, Connecting
    <2>4. AtHandshake(c)' => AtHandshake(c)
      BY <1>8, <2>1, <2>2, <2>3 DEF AtHandshake
    <2>5. \A d \in Callers \ {c} : AtHandshake(d)' => AtHandshake(d) /\ cli'.key = cli.key
      BY <1>8, <2>1, <2>2 DEF AtHandshake
    <2> QED BY <1>7, <1>8, <2>2, <2>4, <2>5
  <1>10. ASSUME slipped' = slipped, Bonding(c) \/ ident' = ident, call'[c].pc # "conn",
                \A d \in Callers \ {c} : call'[d] = call[d],
                \A d \in Callers \ {c} : cli'.user = d => cli.user = d /\ cli'.key = cli.key
         PROVE  Bond'
    <2>1. ~AtHandshake(c)'
      BY <1>10 DEF AtHandshake
    <2>2. \A d \in Callers \ {c} : AtHandshake(d)' => AtHandshake(d) /\ cli'.key = cli.key
      BY <1>10 DEF AtHandshake
    <2> QED BY <1>7, <1>10, <2>1, <2>2
  <1>11. ASSUME cli' = heard \/ LetGo(c)
         PROVE  \A d \in Callers \ {c} : cli'.user = d => cli.user = d /\ cli'.key = cli.key
    <2>1. [cli EXCEPT !.open = FALSE].user = cli.user /\ [cli EXCEPT !.open = FALSE].key = cli.key
      BY <1>3 DEF Client
    <2>2. NoClient.user \notin Callers
      BY ClientTypes, Vocabulary
    <2> QED BY <1>8, <1>11, <2>1, <2>2 DEF LetGo
  <1>12. CASE FoundInPick(c, next, heard)
    <2>1. call'[c].pc = "picked" /\ \A d \in Callers \ {c} : call'[d] = call[d]
      BY <1>3, <1>12 DEF FoundInPick, Calling
    <2>2. cli'.user = "cache"
      BY <1>8, <1>12 DEF FoundInPick, Client
    <2> QED BY <1>10, <1>12, <2>1, <2>2, Vocabulary DEF FoundInPick
  <1>13. CASE next = "found" /\ call[c].pc = "conn" /\ Enter(c, heard)
    <2>1. /\ Entered(c, heard) /\ Probing(c) /\ heard \in Client /\ heard.by = call[c].who
          /\ heard.user = c
      BY <1>1, <1>2, <1>13, EnterHolds
    <2>2. \A d \in Callers \ {c} : cli.user # d
      BY <1>8, <2>1
    <2>3. heard.by # None
      BY <1>3, <1>13, <2>1 DEF CallOK
    <2> QED BY <1>6, <2>1, <2>2, <2>3, BondEntered
  <1>14. CASE RefusedThere(c, next)
    <2>1. call'[c].pc # "conn" /\ \A d \in Callers \ {c} : call'[d] = call[d]
      <3>1. \/ call' = [call EXCEPT ![c].at = @ + 1, ![c].step = "next"] /\ call[c].pc = "pick"
            \/ call' = [call EXCEPT ![c].pc = "failed"]
        BY <1>14 DEF RefusedThere
      <3> QED BY <1>3, <3>1 DEF Calling
    <2>2. cli'.user \in {cli.user, None} /\ (cli'.user # None => cli'.key = cli.key)
      <3>1. cli' \in {cli, NoClient} \/ cli' = [cli EXCEPT !.open = FALSE]
        <4>1. call[c].who \in Adapters /\ Refused(call[c].who, c)
          BY <1>1, <1>2, <1>14, ExchangeTypes DEF RefusedThere
        <4>2. CASE call[c].who \in RawHid
          BY <4>1, <4>2 DEF Refused, Close
        <4>3. CASE call[c].who = "zmk" /\ call[c].pc = "conn"
          BY <4>1, <4>3 DEF Refused, RawHid
        <4>4. CASE call[c].who \notin RawHid /\ ~(call[c].who = "zmk" /\ call[c].pc = "conn")
          <5>1. CloseAbort(call[c].who, c)
            BY <4>1, <4>4 DEF Refused
          <5> QED BY <4>1, <5>1, CloseAborts DEF LetGo
        <4> QED BY <4>2, <4>3, <4>4
      <3> QED BY <1>3, <3>1, ClientTypes DEF Client
    <2> QED BY <1>10, <1>14, <2>1, <2>2, Vocabulary DEF RefusedThere
  <1>15. CASE GivenUp(c, next, heard)
    <2>1. call'[c].pc = "failed" /\ \A d \in Callers \ {c} : call'[d] = call[d]
      BY <1>3, <1>15 DEF GivenUp, Calling
    <2>2. cli' = heard \/ LetGo(c)
      <3>1. call[c].who \in Adapters
        BY <1>1, <1>2, ExchangeTypes
      <3> QED BY <1>15, <3>1, CloseAborts DEF GivenUp
    <2> QED BY <1>10, <1>11, <1>15, <2>1, <2>2 DEF GivenUp
  <1>16. CASE Served(c, next, heard)
    <2>1. call'[c].pc = "service" /\ \A d \in Callers \ {c} : call'[d] = call[d]
      BY <1>3, <1>16 DEF Served, Calling
    <2> QED BY <1>10, <1>11, <1>16, <2>1 DEF Served
  <1> QED BY <1>1, <1>9, <1>12, <1>13, <1>14, <1>15, <1>16

LEMMA BondPicks ==
    ASSUME Held, Bond, NEW c \in Callers, Pick(c) \/ Name(c) \/ TryNext(c)
    PROVE  Bond'
  <1>1. call \in [Callers -> Calling]
    BY DEF Held, TypeOK
  <1>2. UNCHANGED <<ident, slipped, barred>> /\ call[c].pc \in {"idle", "pick"}
    BY DEF Pick, Name, TryNext, historyVars
  <1>3. \A d \in Callers \ {c} : call'[d] = call[d]
    BY <1>1 DEF Pick, Name, TryNext
  <1>4. call'[c].pc # "conn"
    <2>1. CASE Pick(c) \/ Name(c)
      BY <1>1, <2>1 DEF Pick, Name, Calling
    <2>2. CASE TryNext(c)
      <3>1. \/ \E n : call' = [call EXCEPT ![c].at = n]
            \/ \E n \in {"null", "picked"} : \E a : call' = [call EXCEPT ![c].pc = n, ![c].who = a]
            \/ \E t, a : call' = [call EXCEPT ![c].step = t, ![c].who = a]
            \/ call' = [call EXCEPT ![c].pc = "null"]
        BY <2>2 DEF TryNext
      <3>2. call[c] \in Calling /\ call[c].pc = "pick"
        BY <1>1, <2>2 DEF TryNext
      <3>3. ASSUME NEW n, call' = [call EXCEPT ![c].at = n]
            PROVE  call'[c].pc # "conn"
        BY <1>1, <3>2, <3>3 DEF Calling
      <3>4. ASSUME NEW n \in {"null", "picked"}, NEW a,
                   call' = [call EXCEPT ![c].pc = n, ![c].who = a]
            PROVE  call'[c].pc # "conn"
        BY <1>1, <3>4 DEF Calling
      <3>5. ASSUME NEW t, NEW a, call' = [call EXCEPT ![c].step = t, ![c].who = a]
            PROVE  call'[c].pc # "conn"
        BY <1>1, <3>2, <3>5 DEF Calling
      <3>6. ASSUME call' = [call EXCEPT ![c].pc = "null"]
            PROVE  call'[c].pc # "conn"
        BY <1>1, <3>6 DEF Calling
      <3> QED BY <3>1, <3>3, <3>4, <3>5, <3>6
    <2> QED BY <2>1, <2>2
  <1>5. cli' = cli \/ cli'.user = c
    BY ClientTypes DEF Pick, Name, TryNext, transportVars, Fresh, NoClient
  <1>6. \A d \in Callers : AtHandshake(d)' => AtHandshake(d) /\ cli'.key = cli.key
    BY <1>3, <1>4, <1>5 DEF AtHandshake
  <1> QED BY <1>2, <1>6, BondAside

LEMMA BondConnect ==
    ASSUME Held, Bond, NEW c \in Callers, Connect(c)
    PROVE  Bond'
  <1>1. call \in [Callers -> Calling] /\ cli \in Client /\ CallOK(c) /\ ClientOK
    BY DEF Held, TypeOK
  <1>2. call[c].pc = "picked" /\ UNCHANGED barred
    BY DEF Connect
  <1>3. call[c].who \in Adapters
    BY <1>1, <1>2 DEF CallOK, Calling
  <1>4. PICK a \in Adapters : a = call[c].who
    BY <1>3
  <1>5. CASE Cached(a) /\ Enter(c, [cli EXCEPT !.user = c])
    <2>1. PICK cl : cl = [cli EXCEPT !.user = c]
      OBVIOUS
    <2>2. cl \in Client /\ cl.user = c /\ cl.by = cli.by /\ cl.open = cli.open
      BY <1>1, <2>1 DEF Client
    <2>3. cli.by = a /\ cli.user = "cache" /\ cli.open
      BY <1>1, <1>5 DEF Cached, ClientOK
    <2>4. cl.by # None /\ Enter(c, cl)
      BY <1>5, <2>1, <2>2, <2>3, Vocabulary
    <2>5. Entered(c, cl)
      BY <2>2, <2>3, <2>4, Entering DEF Held
    <2>6. \A d \in Callers \ {c} : cli.user # d
      BY <2>3, Vocabulary
    <2> QED BY <1>2, <2>2, <2>4, <2>5, <2>6, BondEntered
  <1>6. CASE /\ cli.by = None
             /\ cli' = [Fresh(a, c) EXCEPT !.open = (a = "zmk" => ~call[c].sig)]
             /\ call' = [call EXCEPT ![c].pc = "conn", ![c].step = First(a),
                                     ![c].hears = IF a = "zmk" THEN "pipes" ELSE @]
             /\ UNCHANGED <<aborted, ident, slipped>>
    <2>1. First(a) \notin {"r_begin", "r_finish"}
      BY DEF First
    <2>2. call'[c].step = First(a) /\ \A d \in Callers \ {c} : call'[d] = call[d]
      BY <1>1, <1>6 DEF Calling
    <2>3. cli'.user = c
      BY <1>6, ClientTypes DEF Client
    <2>4. \A d \in Callers : ~AtHandshake(d)'
      BY <2>1, <2>2, <2>3 DEF AtHandshake
    <2> QED BY <1>2, <1>6, <2>4, BondAside
  <1>7. CASE call' = [call EXCEPT ![c].pc = "failed", ![c].step = "locked"]
             /\ UNCHANGED <<cli, aborted, ident, slipped>>
    <2>1. call'[c].pc = "failed" /\ \A d \in Callers \ {c} : call'[d] = call[d]
      BY <1>1, <1>7 DEF Calling
    <2>2. \A d \in Callers : AtHandshake(d)' => AtHandshake(d) /\ cli'.key = cli.key
      BY <1>7, <2>1 DEF AtHandshake
    <2> QED BY <1>2, <1>7, <2>2, BondAside
  <1> QED BY <1>4, <1>5, <1>6, <1>7 DEF Connect

LEMMA BondAbort ==
    ASSUME Held, Bond, NEW c \in Callers, Abort(c)
    PROVE  Bond'
  <1>1. call \in [Callers -> Calling] /\ cli \in Client /\ CallOK(c) /\ call[c] \in Calling
    BY DEF Held, TypeOK
  <1>2. UNCHANGED <<ident, slipped, barred>>
    BY DEF Abort, historyVars
  <1>3. \A d \in Callers : call'[d].pc = call[d].pc /\ call'[d].step = call[d].step
    BY <1>1 DEF Abort
  <1>4. call[c].who \in Adapters
    BY <1>1 DEF Abort, CallOK, Calling
  <1>5. cli' \in {cli, NoClient} \/ cli' = [cli EXCEPT !.open = FALSE]
    <2>1. CASE call[c].hears = "yes"
      <3>1. CloseAbort(call[c].who, c)
        BY <2>1 DEF Abort
      <3> QED BY <1>4, <3>1, CloseAborts DEF LetGo
    <2>2. CASE call[c].hears # "yes"
      BY <2>2 DEF Abort
    <2> QED BY <2>1, <2>2
  <1>6. \A d \in Callers : cli'.user = d => cli.user = d /\ cli'.key = cli.key
    <2>1. [cli EXCEPT !.open = FALSE].user = cli.user /\ [cli EXCEPT !.open = FALSE].key = cli.key
      BY <1>1 DEF Client
    <2>2. NoClient.user \notin Callers
      BY ClientTypes, Vocabulary
    <2> QED BY <1>5, <2>1, <2>2
  <1>7. \A d \in Callers : AtHandshake(d)' => AtHandshake(d) /\ cli'.key = cli.key
    BY <1>3, <1>6 DEF AtHandshake
  <1> QED BY <1>2, <1>7, BondAside

LEMMA BondStore ==
    ASSUME Held, Bond, Prepare \/ Warmed \/ ReadFails \/ Saved \/ SaveFails
    PROVE  Bond'
  <1>1. ident \in Identity
    BY DEF Held, TypeOK
  <1>2. UNCHANGED <<cli, call, barred>>
    BY DEF Prepare, Warmed, ReadFails, Saved, SaveFails, transportVars, historyVars
  <1>3. \A d \in Callers : AtHandshake(d)' = AtHandshake(d)
    BY <1>2 DEF AtHandshake
  <1>4. CASE ReadFails \/ SaveFails
    BY <1>4 DEF ReadFails, SaveFails, Bond, BondKept
  <1>5. CASE Prepare
    <2>1. slipped' = slipped /\ ident' = [ident EXCEPT !.warm = "reading"] /\ ident.warm = "cold"
      BY <1>5 DEF Prepare, historyVars
    <2>2. /\ ident'.mem = ident.mem /\ ident'.host = ident.host /\ ident'.saving = ident.saving
          /\ ident'.minted = ident.minted /\ ident'.warm = "reading" /\ ident'.cached = ident.cached
          /\ ident'.bond = ident.bond
      BY <1>1, <2>1 DEF Identity
    <2> QED BY <1>2, <1>3, <2>1, <2>2 DEF Bond, BondKept, OneIdentity
  <1>6. CASE Warmed
    <2>1. /\ slipped' = slipped /\ ident.warm = "reading"
          /\ ident' = [ident EXCEPT !.warm = "ready", !.cached = ident.host]
      BY <1>6 DEF Warmed, historyVars
    <2>2. /\ ident'.mem = ident.mem /\ ident'.host = ident.host /\ ident'.saving = ident.saving
          /\ ident'.minted = ident.minted /\ ident'.warm = "ready" /\ ident'.cached = ident.host
          /\ ident'.bond = ident.bond
      BY <1>1, <2>1 DEF Identity
    <2>3. ~slipped => ident.saving = 0 /\ ident.host = ident.minted
      BY <2>1 DEF Bond, OneIdentity
    <2> QED BY <1>2, <1>3, <2>1, <2>2, <2>3 DEF Bond, BondKept, OneIdentity
  <1>7. CASE Saved
    <2>1. /\ slipped' = slipped /\ ident.saving # 0
          /\ ident' = [ident EXCEPT !.host = ident.saving, !.saving = 0]
      BY <1>7 DEF Saved, historyVars
    <2>2. /\ ident'.mem = ident.mem /\ ident'.host = ident.saving /\ ident'.saving = 0
          /\ ident'.minted = ident.minted /\ ident'.warm = ident.warm /\ ident'.cached = ident.cached
          /\ ident'.bond = ident.bond
      BY <1>1, <2>1 DEF Identity
    <2> QED BY <1>2, <1>3, <2>1, <2>2 DEF Bond, BondKept, OneIdentity
  <1> QED BY <1>4, <1>5, <1>6, <1>7

LEMMA BondReopen ==
    ASSUME Held, Bond, NEW restart \in BOOLEAN, Reopen(restart)
    PROVE  Bond'
  <1>1. ident \in Identity /\ slipped \in BOOLEAN
    BY DEF Held, TypeOK
  <1>2. /\ barred' = barred /\ cli' = NoClient
        /\ ident' = IF restart
                    THEN [ident EXCEPT !.warm = "cold", !.cached = 0, !.mem = 0, !.saving = 0]
                    ELSE ident
        /\ slipped' = (slipped \/ (restart /\ ident.saving # 0))
    BY DEF Reopen
  <1>3. \A d \in Callers : ~AtHandshake(d)'
    BY <1>2, ClientTypes, Vocabulary DEF AtHandshake
  <1>4. CASE slipped'
    BY <1>4 DEF Bond, BondKept
  <1>5. CASE ~slipped' /\ restart
    <2>1. ~slipped /\ ident.saving = 0 /\ OneIdentity /\ ~barred'
      BY <1>2, <1>5 DEF Bond, BondKept
    <2>2. ident' = [ident EXCEPT !.warm = "cold", !.cached = 0, !.mem = 0, !.saving = 0]
      BY <1>2, <1>5
    <2>3. /\ ident'.mem = 0 /\ ident'.host = ident.host /\ ident'.saving = 0
          /\ ident'.minted = ident.minted /\ ident'.warm = "cold" /\ ident'.bond = ident.bond
      BY <1>1, <2>2 DEF Identity
    <2> QED BY <1>3, <2>1, <2>3 DEF Bond, BondKept, OneIdentity
  <1>6. CASE ~slipped' /\ ~restart
    <2>1. UNCHANGED <<ident, barred>> /\ ~slipped
      BY <1>2, <1>6
    <2> QED BY <1>3, <1>6, <2>1 DEF Bond, BondKept, OneIdentity
  <1> QED BY <1>4, <1>5, <1>6

\* A board that bonded with this host knows it again after every restart, unless the
\* store failed, a write was lost to the restart, or a connect did not wait for
\* prepare (identity.ts: loadOrCreateIdentity, prepareHostStores).
THEOREM BondTheorem == Spec => []BondKept
  <1>1. Init => Bond
    <2> SUFFICES ASSUME Init
                 PROVE  Bond
      OBVIOUS
    <2>1. /\ slipped = FALSE /\ barred = FALSE /\ cli = NoClient
          /\ ident = [host |-> 0, saving |-> 0, warm |-> "cold", cached |-> 0, mem |-> 0,
                      bond |-> 0, minted |-> 0]
      BY DEF Init
    <2>2. \A c \in Callers : ~AtHandshake(c)
      BY <2>1, ClientTypes, Vocabulary DEF AtHandshake
    <2> QED BY <2>1, <2>2 DEF Bond, BondKept, OneIdentity
  <1>2. Held /\ Held' /\ Bond /\ [Next]_vars => Bond'
    <2> SUFFICES ASSUME Held, Held', Bond, [Next]_vars
                 PROVE  Bond'
      OBVIOUS
    <2>1. ASSUME NEW c \in Callers,
                 Pick(c) \/ Name(c) \/ TryNext(c) \/ Connect(c) \/ Exchange(c) \/ Abort(c)
          PROVE  Bond'
      BY <2>1, BondPicks, BondConnect, BondExchange, BondAbort
    <2>2. CASE Prepare \/ Warmed \/ ReadFails \/ Saved \/ SaveFails
      BY <2>2, BondStore
    <2>3. CASE \E restart \in BOOLEAN : Reopen(restart)
      BY <2>3, BondReopen
    <2>4. CASE UNCHANGED vars
      BY <2>4 DEF Bond, BondKept, OneIdentity, AtHandshake, vars, transportVars, historyVars
    <2> QED BY <2>1, <2>2, <2>3, <2>4 DEF Next
  <1>3. Bond => BondKept
    BY DEF Bond
  <1> QED BY <1>1, <1>2, <1>3, HeldAlways, PTL DEF Spec

(***************************************************************************)
(* Whose board it is: OwnerWins.                                           *)
(***************************************************************************)
Own == Owner(setup.board)
Judged == (setup.kind = "hid" => KnownHid) /\ ~astray

\* The steps at which a board that is not its own keeps an adapter.
StraySteps == {"r_info", "r_uinfo", "r_nodes", "l_proto", "l_id", "k_proto", "z_info"}

\* The owner is asked, and before VIA; Remappr is asked by its vendor id alone.
InOrder ==
    /\ \E i \in DOMAIN order : order[i] = Own
    /\ \A k \in DOMAIN order :
        /\ order[k] = "via" /\ Own # "via" => \E j \in DOMAIN order : j < k /\ order[j] = Own
        /\ order[k] = "remappr" => setup.vid = "1209"

Ahead(c) == \A j \in DOMAIN order : j < call[c].at => order[j] # Own

Asking(c) ==
    /\ KnownHid => Ahead(c) \/ aborted
    /\ call[c].step # "next" =>
        /\ call[c].at \in DOMAIN order /\ order[call[c].at] = call[c].who
        /\ ~Refuses(call[c].who)
        /\ call[c].who # Own =>
               call[c].step \in StraySteps \/ (call[c].step = "v_proto" /\ aborted)

\* The lower rungs of discover are for the boards that do not answer higher up.
Ladder(c) ==
    ~aborted => /\ call[c].step = "r_uinfo" => setup.board # "openNode"
                /\ call[c].step = "r_nodes" => setup.board = "oldDongle"

Rightly(c) ==
    /\ call[c].pc \in {"picked", "conn", "service"} => call[c].who = Own
    /\ call[c].pc = "null" /\ KnownHid => aborted
    /\ call[c].pc = "pick" => Asking(c)
    /\ call[c].pc \in {"pick", "conn"} /\ call[c].who = Own => Ladder(c)

\* Why the transport of a HID keyboard may be dead.
Blamed ==
    KnownHid /\ aborted => \/ setup.vid = "1209" /\ Own # "remappr"
                           \/ \E c \in Callers : call[c].pc \in {"conn", "failed", "service"}

StaleOK == stale \in Says(setup.board) \cup {None, "unhandled"}

OwnInv ==
    /\ StaleOK
    /\ KnownHid => InOrder
    /\ Judged => /\ cli.user = "cache" => cli.by = Own
                 /\ Blamed
                 /\ \A c \in Callers : Rightly(c)

LEMMA Spoken ==
    ASSUME NEW b \in Boards
    PROVE  /\ "info" \in Says(b) \/ "uinfo" \in Says(b) \/ "nodes" \in Says(b) => Owner(b) = "remappr"
           /\ "pers" \in Says(b) => b \in {"node", "dongle"}
           /\ "config" \in Says(b) => b \in {"node", "openNode"}
           /\ "kbid" \in Says(b) => Owner(b) = "vial"
           /\ "kproto" \in Says(b) => Owner(b) = "keychron"
           /\ "zinfo" \in Says(b) => Owner(b) = "zmk"
           /\ Owner(b) = "remappr" => b \in {"node", "openNode", "dongle", "oldDongle"}
           /\ b = "openNode" => "info" \in Says(b) /\ "uinfo" \notin Says(b)
           /\ b \in {"node", "dongle"} => "uinfo" \in Says(b)
           /\ b = "oldDongle" => "nodes" \in Says(b)
           /\ Owner(b) = "via" => "proto" \in Says(b) /\ "layers" \in Says(b)
           /\ Owner(b) = "vial" => /\ "proto" \in Says(b) /\ "layers" \in Says(b) /\ "kbid" \in Says(b)
                                   /\ b \in {"vial", "mutedVial"}
           /\ Owner(b) = "keychron" => "kproto" \in Says(b) /\ "layers" \in Says(b)
           /\ Owner(b) = "zmk" => "zinfo" \in Says(b)
           /\ b = "vial" => Owner(b) = "vial" /\ "def" \in Says(b)
  <1>1. CASE b \in {"node", "openNode", "dongle", "oldDongle"}
    BY <1>1 DEF Owner, Says, ViaVerbs, NodeVerbs, Probes2
  <1>2. CASE b \in {"vial", "mutedVial"}
    BY <1>2 DEF Owner, Says, ViaVerbs, NodeVerbs, Probes2
  <1>3. CASE b = "via"
    BY <1>3 DEF Owner, Says, ViaVerbs, NodeVerbs, Probes2
  <1>4. CASE b = "keychron"
    BY <1>4 DEF Owner, Says, ViaVerbs, NodeVerbs, Probes2
  <1>5. CASE b = "zmk"
    BY <1>5 DEF Owner, Says, ViaVerbs, NodeVerbs, Probes2
  <1> QED BY <1>1, <1>2, <1>3, <1>4, <1>5 DEF Boards

\* A request is never mistaken for what is not a reply.
LEMMA Requests == \A s \in Steps : Script[s].ask \notin {None, "unhandled"}
  <1> SUFFICES ASSUME NEW s \in Steps
               PROVE  Script[s].ask \notin {None, "unhandled"}
    OBVIOUS
  <1>1. PICK a \in Adapters : s \in ProbeSteps(a) \cup ServeSteps(a)
    BY ScriptSets
  <1>2. CASE a = "remappr"
    BY <1>1, <1>2, ScriptSets, RemapprRows DEF Step, None
  <1>3. CASE a = "via"
    BY <1>1, <1>3, ScriptSets, ViaRows DEF Step, None
  <1>4. CASE a = "vial"
    BY <1>1, <1>4, ScriptSets, VialRows DEF Step, None
  <1>5. CASE a = "keychron"
    BY <1>1, <1>5, ScriptSets, KeychronRows DEF Step, None
  <1>6. CASE a = "zmk"
    BY <1>1, <1>6, ScriptSets, ZmkRows DEF Step, None
  <1> QED BY <1>2, <1>3, <1>4, <1>5, <1>6, Vocabulary

\* The ways of an exchange, as far as the board is concerned.
LEMMA Heard ==
    ASSUME StaleOK, NEW c \in Callers, NEW v, v \notin {None, "unhandled"}, NEW w \in Ways(c, v)
    PROVE  /\ w.good => v \in Says(setup.board)
           /\ w.stale \in Says(setup.board) \cup {None, "unhandled"}
  <1>1. Tag(v) \in Says(setup.board) \cup {"unhandled"}
    BY DEF Tag
  <1>2. Knows(v) => v \in Says(setup.board)
    BY DEF Knows
  <1>3. CASE ~Mine(c) \/ aborted
    <2>1. w = Way(FALSE, cli.orphan, stale, 0)
      BY <1>3 DEF Ways
    <2> QED BY <2>1 DEF Way, StaleOK
  <1>4. CASE ~(~Mine(c) \/ aborted) /\ cli.by \notin RawHid
    <2>1. \/ w = Way(Knows(v), FALSE, stale, 0)
          \/ \E n \in {1} \cap (0..MaxMissed - missed) : w = Way(FALSE, FALSE, stale, n)
      BY <1>4 DEF Ways
    <2> QED BY <1>2, <2>1 DEF Way, StaleOK
  <1>5. CASE ~(~Mine(c) \/ aborted) /\ cli.by \in RawHid
    <2>1. CASE ~cli.orphan /\ ~cli.pump /\ stale # None
      <3>1. w = Way(stale = v, FALSE, IF Replies(v) THEN Tag(v) ELSE None, 0)
        BY <1>5, <2>1 DEF Ways
      <3> QED BY <1>1, <3>1 DEF Way, StaleOK
    <2>2. CASE ~(~cli.orphan /\ ~cli.pump /\ stale # None) /\ cli.orphan /\ stale = None
      <3>1. w = Way(FALSE, ~(cli.pump /\ Replies(v)), None, 0)
        BY <1>5, <2>2 DEF Ways
      <3> QED BY <3>1 DEF Way
    <2>3. CASE ~(~cli.orphan /\ ~cli.pump /\ stale # None) /\ ~(cli.orphan /\ stale = None)
      <3>1. \/ w = Way(Knows(v), ~cli.pump /\ ~Replies(v), None, 0)
            \/ \E left \in {None, Tag(v)} : w = Way(FALSE, ~cli.pump, left, 1)
        BY <1>5, <2>3 DEF Ways
      <3> QED BY <1>1, <1>2, <3>1 DEF Way
    <2> QED BY <2>1, <2>2, <2>3
  <1> QED BY <1>3, <1>4, <1>5

LEMMA HeardExchanged ==
    ASSUME StaleOK, NEW c \in Callers, call[c].step \in Steps,
           NEW w, NEW next, NEW heard, Exchanged(c, w, next, heard)
    PROVE  StaleOK' /\ (w.good => Script[call[c].step].ask \in Says(setup.board) /\ ~aborted)
  <1>1. Script[call[c].step].ask \notin {None, "unhandled"}
    BY Requests
  <1>2. w \in Ways(c, Script[call[c].step].ask)
    BY DEF Exchanged
  <1>3. /\ w.good => Script[call[c].step].ask \in Says(setup.board)
        /\ w.stale \in Says(setup.board) \cup {None, "unhandled"}
    BY <1>1, <1>2, Heard
  <1> QED BY <1>3 DEF Exchanged, StaleOK

\* An adapter whose board it is not gets no further than its stray steps.
LEMMA StrayExchange ==
    ASSUME Held, OwnInv, Judged, NEW c \in Callers, call[c].pc = "pick", call[c].step \in Steps,
           call[c].who # Own, NEW w, NEW next, NEW heard, Exchanged(c, w, next, heard)
    PROVE  next \in StraySteps \cup {"no"}
  <1>1. PICK a, s, v : a = call[c].who /\ s = call[c].step /\ v = Script[s].ask
    OBVIOUS
  <1>2. next = Goes(s, w.good) /\ w.good \in BOOLEAN
    BY <1>1 DEF Exchanged
  <1>3. a \in Adapters /\ s \in ProbeSteps(a) /\ a # Own /\ setup.board \in Boards
    BY <1>1, ExchangeTypes DEF Held, SettingOK
  <1>4. w.good => v \in Says(setup.board) /\ ~aborted
    BY <1>1, HeardExchanged DEF OwnInv
  <1>5. s \in StraySteps \/ (s = "v_proto" /\ aborted)
    <2>1. s # "next"
      BY <1>1, PartDomains, ScriptParts
    <2> QED BY <1>1, <2>1 DEF OwnInv, Rightly, Asking
  <1>6. CASE a = "remappr"
    <2>1. s \in {"r_info", "r_uinfo", "r_nodes"}
      BY <1>3, <1>5, <1>6, ScriptSets DEF StraySteps
    <2>2. v \notin Says(setup.board)
      BY <1>1, <1>3, <1>6, <2>1, RemapprRows, Spoken DEF Step, Own
    <2> QED BY <1>2, <1>4, <2>1, <2>2, RemapprRows DEF Goes, Step, StraySteps
  <1>7. CASE a = "via"
    <2>1. s = "v_proto" /\ ~w.good
      BY <1>3, <1>4, <1>5, <1>7, ScriptSets DEF StraySteps
    <2> QED BY <1>2, <2>1, ViaRows DEF Goes, Step
  <1>8. CASE a = "vial"
    <2>1. s \in {"l_proto", "l_id"}
      BY <1>3, <1>8, ScriptSets
    <2>2. s = "l_id" => ~w.good
      BY <1>1, <1>3, <1>4, <1>8, VialRows, Spoken DEF Step, Own
    <2> QED BY <1>2, <2>1, <2>2, VialRows DEF Goes, Step, StraySteps
  <1>9. CASE a = "keychron"
    <2>1. s = "k_proto"
      BY <1>3, <1>5, <1>9, ScriptSets DEF StraySteps
    <2>2. ~w.good
      BY <1>1, <1>3, <1>4, <1>9, <2>1, KeychronRows, Spoken DEF Step, Own
    <2> QED BY <1>2, <2>1, <2>2, KeychronRows DEF Goes, Step
  <1>10. CASE a = "zmk"
    <2>1. s = "z_info"
      BY <1>3, <1>10, ScriptSets
    <2>2. ~w.good
      BY <1>1, <1>3, <1>4, <1>10, <2>1, ZmkRows, Spoken DEF Step, Own
    <2> QED BY <1>2, <2>1, <2>2, ZmkRows DEF Goes, Step
  <1> QED BY <1>3, <1>6, <1>7, <1>8, <1>9, <1>10, Vocabulary

\* The owner's probe fails, or steps down its ladder, for a reason.
LEMMA OwnExchange ==
    ASSUME Held, OwnInv, Judged', NEW c \in Callers, call[c].pc \in {"pick", "conn"},
           call[c].step \in ProbeSteps(Own), call[c].who = Own, ~aborted, Ladder(c),
           NEW w, NEW next, NEW heard, Exchanged(c, w, next, heard)
    PROVE  /\ next # "no"
           /\ next = "r_uinfo" => setup.board # "openNode"
           /\ next = "r_nodes" => setup.board = "oldDongle"
  <1>1. PICK s, v, b : s = call[c].step /\ v = Script[s].ask /\ b = setup.board
    OBVIOUS
  <1>2. Own \in Adapters /\ b \in Boards /\ astray \in BOOLEAN
    BY <1>1, Owners DEF Held, SettingOK, Own, TypeOK
  <1>3. ProbeGoes(Own, s, w.good) /\ next = Goes(s, w.good)
    BY <1>1, <1>2, ProbeGoing DEF Exchanged
  <1>4. /\ next = "no" => ~w.good /\ Script[s].fail = "no"
        /\ next = "r_uinfo" => ~w.good /\ s = "r_info"
        /\ next = "r_nodes" => ~w.good /\ s = "r_uinfo"
    BY <1>3 DEF ProbeGoes
  <1>5. ~Foreign(c, v, w)
    <2>1. ~astray'
      BY DEF Judged
    <2> QED BY <1>1, <2>1 DEF Exchanged
  <1>6. /\ next = "no" => v \notin Says(b)
        /\ next = "r_uinfo" => v \notin Says(b) \/ "uinfo" \in Says(b)
        /\ next = "r_nodes" => v \notin Says(b)
    <2>1. s = "r_info" => v = "info"
      BY <1>1, RemapprRows DEF Step
    <2>2. s = "r_uinfo" => v = "uinfo"
      BY <1>1, RemapprRows DEF Step
    <2> QED BY <1>1, <1>4, <1>5, <2>1, <2>2 DEF Foreign, Own
  <1>7. CASE Own = "remappr"
    <2>1. s \in {"r_info", "r_uinfo", "r_pers", "r_limits", "r_nodes", "r_caps"}
      BY <1>1, <1>7, ScriptSets
    <2>2. b \in {"node", "openNode", "dongle", "oldDongle"}
      BY <1>1, <1>2, <1>7, Spoken DEF Own
    <2>3. next = "no" => s = "r_nodes" /\ v = "nodes"
      BY <1>1, <1>4, <2>1, RemapprRows DEF Step
    <2>4. s = "r_nodes" => b = "oldDongle"
      BY <1>1 DEF Ladder
    <2>5. s = "r_uinfo" => b # "openNode"
      BY <1>1 DEF Ladder
    <2>6. next # "no"
      BY <1>2, <1>6, <2>3, <2>4, Spoken
    <2>7. next = "r_uinfo" => b # "openNode"
      <3>1. next = "r_uinfo" => v = "info"
        BY <1>1, <1>4, RemapprRows DEF Step
      <3> QED BY <1>2, <1>6, <3>1, Spoken
    <2>8. next = "r_nodes" => b = "oldDongle"
      <3>1. next = "r_nodes" => v = "uinfo" /\ s = "r_uinfo"
        BY <1>1, <1>4, RemapprRows DEF Step
      <3> QED BY <1>2, <1>6, <2>2, <2>5, <3>1, Spoken
    <2> QED BY <1>1, <2>6, <2>7, <2>8
  <1>8. CASE Own # "remappr"
    <2>1. s \notin {"r_info", "r_uinfo"}
      BY <1>1, <1>2, <1>8, ScriptSets, Vocabulary
    <2>2. v \in Says(b) \/ Script[s].fail # "no"
      <3>1. CASE Own = "via"
        BY <1>1, <1>2, <3>1, ScriptSets, ViaRows, Spoken DEF Own, Step
      <3>2. CASE Own = "vial"
        BY <1>1, <1>2, <3>2, ScriptSets, VialRows, Spoken DEF Own, Step
      <3>3. CASE Own = "keychron"
        BY <1>1, <1>2, <3>3, ScriptSets, KeychronRows, Spoken DEF Own, Step
      <3>4. CASE Own = "zmk"
        BY <1>1, <1>2, <3>4, ScriptSets, ZmkRows, Spoken DEF Own, Step
      <3> QED BY <1>2, <1>8, <3>1, <3>2, <3>3, <3>4, Vocabulary
    <2> QED BY <1>4, <1>6, <2>1, <2>2
  <1> QED BY <1>7, <1>8

\* What one caller's step leaves to prove.
LEMMA OwnMoved ==
    ASSUME Held, OwnInv, NEW c \in Callers, Moved(c), UNCHANGED order, astray => astray', StaleOK',
           Judged' => Rightly(c)' /\ (cli'.user = "cache" => cli'.by = Own),
           Judged' /\ aborted' => \/ aborted /\ call[c].pc \notin {"conn", "failed", "service"}
                                  \/ KnownHid => setup.vid = "1209" /\ Own # "remappr"
                                  \/ call'[c].pc \in {"conn", "failed", "service"}
    PROVE  OwnInv'
  <1>1. setup' = setup /\ (KnownHid' <=> KnownHid) /\ Own' = Own /\ (Judged' => Judged)
        /\ (InOrder' <=> InOrder)
    BY DEF Moved, KnownHid, Own, Judged, InOrder
  <1>2. aborted \in BOOLEAN
    BY DEF Held, TypeOK
  <1>3. ASSUME NEW d \in Callers \ {c}, Judged'
        PROVE  Rightly(d)'
    <2>1. Rightly(d) /\ call'[d] = call[d] /\ (aborted => aborted') /\ order' = order
      BY <1>1, <1>3 DEF OwnInv, Moved
    <2>2. Asking(d) => Asking(d)'
      BY <1>1, <2>1 DEF Asking, Ahead, Refuses
    <2>3. Ladder(d) => Ladder(d)'
      BY <1>1, <2>1 DEF Ladder
    <2> QED BY <1>1, <2>1, <2>2, <2>3 DEF Rightly
  <1>4. Judged' => Blamed'
    <2> SUFFICES ASSUME Judged', KnownHid, aborted', ~(setup.vid = "1209" /\ Own # "remappr")
                 PROVE  \E d \in Callers : call'[d].pc \in {"conn", "failed", "service"}
      BY <1>1 DEF Blamed
    <2>1. CASE aborted /\ call[c].pc \notin {"conn", "failed", "service"}
      <3>1. PICK d \in Callers : call[d].pc \in {"conn", "failed", "service"}
        BY <1>1, <2>1 DEF OwnInv, Blamed
      <3>2. call'[d] = call[d]
        BY <2>1, <3>1 DEF Moved
      <3> QED BY <3>1, <3>2
    <2>2. CASE call'[c].pc \in {"conn", "failed", "service"}
      BY <2>2
    <2> QED BY <2>1, <2>2
  <1> QED BY <1>1, <1>3, <1>4 DEF OwnInv

LEMMA OwnPicks ==
    ASSUME Held, OwnInv, NEW c \in Callers, Pick(c) \/ Name(c)
    PROVE  OwnInv'
  <1>1. call \in [Callers -> Calling] /\ call[c] \in Calling
    BY DEF Held, TypeOK
  <1>2. call[c].pc = "idle" /\ UNCHANGED <<setup, order, aborted, cli, stale, missed, astray>>
    BY DEF Pick, Name, transportVars
  <1>3. \A d \in Callers \ {c} : call'[d] = call[d]
    BY <1>1 DEF Pick, Name
  <1>4. Moved(c)
    BY <1>2, <1>3 DEF Moved
  <1>5. Own' = Own /\ StaleOK' /\ (Judged' => Judged)
    BY <1>2 DEF Own, OwnInv, StaleOK, Judged, KnownHid
  <1>6. Rightly(c)'
    <2>1. CASE Pick(c)
      <3>1. call'[c].pc = "pick" /\ call'[c].at = 1 /\ call'[c].step = "next"
        BY <1>1, <2>1 DEF Pick, Calling
      <3>2. \A j \in DOMAIN order' : ~(j < 1)
        BY <1>2 DEF Held, TypeOK
      <3>3. Asking(c)' /\ Ladder(c)'
        BY <3>1, <3>2 DEF Asking, Ahead, Ladder
      <3> QED BY <3>1, <3>3 DEF Rightly
    <2>2. CASE Name(c)
      <3>1. call'[c].pc = "picked" /\ call'[c].who = Own
        BY <1>1, <2>2 DEF Name, Calling, Own
      <3> QED BY <1>5, <3>1 DEF Rightly
    <2> QED BY <2>1, <2>2
  <1>7. Judged' => (cli'.user = "cache" => cli'.by = Own)
    BY <1>2, <1>5 DEF OwnInv
  <1>8. aborted' => aborted /\ call[c].pc \notin {"conn", "failed", "service"}
    BY <1>2
  <1> QED BY <1>2, <1>4, <1>5, <1>6, <1>7, <1>8, OwnMoved

LEMMA OwnTry ==
    ASSUME Held, Held', OwnInv, NEW c \in Callers, TryNext(c)
    PROVE  OwnInv'
  <1>1. call \in [Callers -> Calling] /\ call[c] \in Calling /\ order \in Seq(Adapters)
        /\ SettingOK /\ astray \in BOOLEAN
    BY DEF Held, TypeOK
  <1>2. call[c].pc = "pick" /\ call[c].step = "next"
        /\ UNCHANGED <<setup, order, aborted, stale, missed>>
    BY DEF TryNext
  <1>3. "next" \notin Steps /\ DOMAIN order = 1..Len(order) /\ call[c].at \in Nat
    BY <1>1, PartDomains, ScriptParts DEF Calling
  <1>4. call[c].at >= 1
    <2>1. call[c].who \in Adapters => "next" \notin ProbeSteps(call[c].who)
      BY <1>3, ScriptSets
    <2>2. CallOK(c) /\ call[c].who \in Adapters \cup {None}
      BY <1>1 DEF Held, Calling
    <2> QED BY <1>2, <2>1, <2>2 DEF CallOK, Picking
  <1>5. Own' = Own /\ StaleOK' /\ (KnownHid' <=> KnownHid)
    BY <1>2 DEF Own, OwnInv, StaleOK, KnownHid
  <1>6. ASSUME \A d \in Callers \ {c} : call'[d] = call[d], astray => astray',
               Judged' => Rightly(c)',
               cli' = cli \/ (cli.by = None /\ \E a \in Adapters : cli' = Fresh(a, c))
        PROVE  OwnInv'
    <2>1. cli' = cli \/ (cli.user = None /\ cli'.user = c)
      BY <1>6, ClientTypes DEF Held, ClientOK
    <2>2. Moved(c)
      BY <1>2, <1>6, <2>1, Vocabulary DEF Moved
    <2>3. Judged' => (cli'.user = "cache" => cli'.by = Own)
      <3>1. Judged' => Judged
        BY <1>5, <1>6, <1>2 DEF Judged
      <3> QED BY <2>1, <3>1, Vocabulary DEF OwnInv
    <2> QED BY <1>2, <1>5, <1>6, <2>2, <2>3, OwnMoved
  <1>7. CASE call[c].at > Len(order)
    <2>1. call' = [call EXCEPT ![c].pc = "null"] /\ UNCHANGED <<cli, astray>>
      BY <1>7 DEF TryNext
    <2>2. call'[c].pc = "null" /\ \A d \in Callers \ {c} : call'[d] = call[d]
      BY <1>1, <2>1 DEF Calling
    <2>3. Judged' /\ KnownHid => aborted
      <3> SUFFICES ASSUME Judged', KnownHid
                   PROVE  aborted
        OBVIOUS
      <3>1. Judged /\ InOrder /\ (Ahead(c) \/ aborted)
        BY <1>2, <1>5, <2>1 DEF OwnInv, Judged, Rightly, Asking
      <3>2. ~Ahead(c)
        BY <1>3, <1>7, <3>1 DEF InOrder, Ahead
      <3> QED BY <3>1, <3>2
    <2>4. Judged' => Rightly(c)'
      BY <1>2, <1>5, <2>2, <2>3 DEF Rightly
    <2> QED BY <1>6, <2>1, <2>2, <2>4
  <1>8. CASE ~(call[c].at > Len(order))
    <2>1. PICK a : a = order[call[c].at]
      OBVIOUS
    <2>2. a \in Adapters /\ call[c].at \in DOMAIN order
      BY <1>1, <1>3, <1>4, <1>8, <2>1
    <2>3. Judged => (KnownHid => Ahead(c) \/ aborted)
      BY <1>2 DEF OwnInv, Rightly, Asking
    <2>4. ASSUME call' = [call EXCEPT ![c].at = @ + 1], UNCHANGED cli, astray => astray',
                 a = Own /\ KnownHid => astray'
          PROVE  OwnInv'
      <3>1. PICK m \in Nat : m = call[c].at + 1
        BY <1>3
      <3>2. call'[c].pc = "pick" /\ call'[c].step = "next" /\ call'[c].at = m
            /\ \A d \in Callers \ {c} : call'[d] = call[d]
        BY <1>1, <1>2, <2>4, <3>1 DEF Calling
      <3>3. Judged' => Judged /\ (KnownHid => a # Own)
        BY <1>2, <1>5, <2>4 DEF Judged
      <3>4. Judged' /\ KnownHid => Ahead(c)' \/ aborted
        <4>1. Ahead(c) /\ a # Own => \A j \in DOMAIN order : j < m => order[j] # Own
          BY <1>3, <2>1, <3>1 DEF Ahead
        <4> QED BY <1>2, <1>5, <2>3, <3>2, <3>3, <4>1 DEF Ahead
      <3>5. Judged' => Asking(c)'
        BY <1>2, <1>5, <3>2, <3>4 DEF Asking
      <3>6. Ladder(c)'
        BY <3>2 DEF Ladder
      <3>7. Judged' => Rightly(c)'
        BY <3>2, <3>5, <3>6 DEF Rightly
      <3> QED BY <1>6, <2>4, <3>2, <3>7
    <2>5. CASE Refuses(a) /\ call' = [call EXCEPT ![c].at = @ + 1] /\ UNCHANGED <<cli, astray>>
      <3>1. KnownHid => a # Own
        BY <1>1, <2>5 DEF SettingOK, KnownHid, Refuses, Own, RawHid
      <3> QED BY <2>4, <2>5, <3>1
    <2>6. CASE ~Refuses(a) /\ Cached(a) /\ call' = [call EXCEPT ![c].pc = "picked", ![c].who = a]
               /\ UNCHANGED <<cli, astray>>
      <3>1. call'[c].pc = "picked" /\ call'[c].who = a /\ \A d \in Callers \ {c} : call'[d] = call[d]
        BY <1>1, <2>6 DEF Calling
      <3>2. Judged' => a = Own
        BY <1>2, <1>5, <2>6 DEF OwnInv, Cached, Judged
      <3>3. Judged' => Rightly(c)'
        BY <1>5, <3>1, <3>2 DEF Rightly
      <3> QED BY <1>6, <2>6, <3>1, <3>3
    <2>7. CASE /\ ~Refuses(a) /\ ~Cached(a) /\ cli.by # None
               /\ call' = [call EXCEPT ![c].at = @ + 1]
               /\ astray' = (astray \/ a = Owner(setup.board))
               /\ UNCHANGED cli
      BY <2>4, <2>7 DEF Own
    <2>8. CASE /\ ~Refuses(a) /\ cli.by = None /\ cli' = Fresh(a, c) /\ UNCHANGED astray
               /\ call' = [call EXCEPT ![c].step = First(a), ![c].who = a]
      <3>1. /\ call'[c].pc = "pick" /\ call'[c].who = a /\ call'[c].step = First(a)
            /\ call'[c].at = call[c].at
            /\ \A d \in Callers \ {c} : call'[d] = call[d]
        BY <1>1, <1>2, <2>8 DEF Calling
      <3>2. First(a) \in {"r_info", "v_proto", "l_proto", "k_proto", "z_info"}
            /\ (First(a) = "v_proto" => a = "via")
        BY <2>2 DEF First, Adapters
      <3>3. Judged' => Judged
        BY <1>2, <1>5, <2>8 DEF Judged
      <3>4. ASSUME Judged', a # Own
            PROVE  First(a) \in StraySteps \/ (First(a) = "v_proto" /\ aborted)
        <4>1. CASE a = "via"
          <5>1. setup.kind = "hid"
            BY <2>8, <4>1 DEF Refuses, RawHid
          <5>2. KnownHid /\ InOrder /\ (Ahead(c) \/ aborted)
            BY <2>3, <3>3, <3>4, <5>1 DEF Judged, OwnInv
          <5>3. PICK j \in DOMAIN order : j < call[c].at /\ order[j] = Own
            BY <2>1, <2>2, <3>4, <4>1, <5>2 DEF InOrder
          <5>4. aborted
            BY <5>2, <5>3 DEF Ahead
          <5> QED BY <4>1, <5>4 DEF First
        <4>2. CASE a # "via"
          BY <3>2, <4>2 DEF StraySteps
        <4> QED BY <4>1, <4>2
      <3>5. Refuses(a)' <=> Refuses(a)
        BY <1>2 DEF Refuses
      <3>6. Judged' => Asking(c)'
        BY <1>2, <1>5, <2>1, <2>2, <2>3, <2>8, <3>1, <3>3, <3>4, <3>5 DEF Asking, Ahead
      <3>7. Ladder(c)'
        BY <3>1, <3>2 DEF Ladder
      <3>8. Judged' => Rightly(c)'
        BY <3>1, <3>6, <3>7 DEF Rightly
      <3> QED BY <1>6, <2>2, <2>8, <3>1, <3>8
    <2> QED BY <1>8, <2>1, <2>5, <2>6, <2>7, <2>8 DEF TryNext
  <1> QED BY <1>7, <1>8

\* A connect that is led on from its probe is still the owner's.
LEMMA OwnEntered ==
    ASSUME Held, OwnInv, NEW c \in Callers, NEW cl \in Client, Entered(c, cl),
           cl.by # None, cl.user = c, call[c].pc \in {"picked", "conn"},
           \A d \in Callers \ {c} : cli.user # d, UNCHANGED <<setup, order>>,
           astray => astray', StaleOK'
    PROVE  OwnInv'
  <1>1. call \in [Callers -> Calling] /\ call[c] \in Calling /\ aborted \in BOOLEAN
    BY DEF Held, TypeOK
  <1>2. cl.by \in Adapters /\ AfterProbe(cl) \in ServeSteps(cl.by) \cup {"serve"}
    BY AfterProbing DEF Client
  <1>3. \A a \in Adapters : "r_uinfo" \notin ServeSteps(a) /\ "r_nodes" \notin ServeSteps(a)
    BY ScriptSets, Vocabulary
  <1>4. ASSUME call'[c].pc \in {"failed", "service", "conn"}, call'[c].who = call[c].who,
               call'[c].pc = "conn" => call'[c].step \in ServeSteps(cl.by),
               \A d \in Callers \ {c} : call'[d] = call[d],
               cli'.user = c \/ cli'.user = None, aborted => aborted'
        PROVE  OwnInv'
    <2>1. Moved(c)
      BY <1>4, Vocabulary DEF Moved
    <2>2. Judged' => Rightly(c)' /\ (cli'.user = "cache" => cli'.by = Own)
      <3>1. Judged' => call[c].who = Own /\ Own' = Own
        BY DEF Judged, KnownHid, Own, OwnInv, Rightly
      <3>2. Ladder(c)' \/ call'[c].pc # "conn"
        BY <1>2, <1>3, <1>4 DEF Ladder
      <3>3. cli'.user # "cache"
        BY <1>4, Vocabulary
      <3> QED BY <1>4, <3>1, <3>2, <3>3 DEF Rightly
    <2> QED BY <1>4, <2>1, <2>2, OwnMoved
  <1>5. CASE /\ call' = [call EXCEPT ![c].pc = "failed", ![c].step = "signal"]
             /\ UNCHANGED <<ident, slipped>>
             /\ \/ cli' = NoClient /\ (aborted => aborted')
                \/ cli' = [cl EXCEPT !.open = FALSE] /\ cl.by = "zmk" /\ aborted'
             /\ aborted' \in BOOLEAN
    <2>1. call'[c].pc = "failed" /\ call'[c].who = call[c].who
          /\ \A d \in Callers \ {c} : call'[d] = call[d]
      BY <1>1, <1>5 DEF Calling
    <2>2. cli'.user = c \/ cli'.user = None
      BY <1>5, ClientTypes DEF Client
    <2> QED BY <1>4, <1>5, <2>1, <2>2
  <1>6. CASE /\ AfterProbe(cl) = "serve"
             /\ UNCHANGED <<ident, slipped, aborted>> /\ cli' = cl
             /\ \E h \in {"pipes", "yes"} :
                  /\ h = "pipes" => call[c].hears = "pipes"
                  /\ call' = [call EXCEPT ![c].pc = "service", ![c].step = "serve", ![c].hears = h,
                                       ![c].svc = IF cl.by = "zmk" THEN "zmk" ELSE "dongle"]
    <2>1. PICK h \in {"pipes", "yes"} :
            call' = [call EXCEPT ![c].pc = "service", ![c].step = "serve", ![c].hears = h,
                                 ![c].svc = IF cl.by = "zmk" THEN "zmk" ELSE "dongle"]
      BY <1>6
    <2>2. call'[c].pc = "service" /\ call'[c].who = call[c].who
          /\ \A d \in Callers \ {c} : call'[d] = call[d]
      BY <1>1, <2>1 DEF Calling
    <2> QED BY <1>4, <1>6, <2>2
  <1>7. CASE /\ AfterProbe(cl) # "serve" /\ UNCHANGED aborted
             /\ IF AfterProbe(cl) = "r_begin" THEN LoadIdentity /\ cli' = [cl EXCEPT !.key = Key]
                                              ELSE UNCHANGED <<ident, slipped>> /\ cli' = cl
             /\ \E h \in {"pipes", "yes"} :
                  /\ h = "pipes" => call[c].hears = "pipes"
                  /\ call' = [call EXCEPT ![c].pc = "conn", ![c].step = AfterProbe(cl), ![c].hears = h]
    <2>1. PICK h \in {"pipes", "yes"} :
            call' = [call EXCEPT ![c].pc = "conn", ![c].step = AfterProbe(cl), ![c].hears = h]
      BY <1>7
    <2>2. call'[c].pc = "conn" /\ call'[c].who = call[c].who /\ call'[c].step = AfterProbe(cl)
          /\ \A d \in Callers \ {c} : call'[d] = call[d]
      BY <1>1, <2>1 DEF Calling
    <2>3. cli'.user = c
      BY <1>7 DEF Client
    <2> QED BY <1>2, <1>4, <1>7, <2>2, <2>3
  <1> QED BY <1>5, <1>6, <1>7 DEF Entered

LEMMA OwnConnect ==
    ASSUME Held, OwnInv, NEW c \in Callers, Connect(c)
    PROVE  OwnInv'
  <1>1. call \in [Callers -> Calling] /\ cli \in Client /\ call[c] \in Calling /\ CallOK(c)
        /\ ClientOK
    BY DEF Held, TypeOK
  <1>2. call[c].pc = "picked" /\ UNCHANGED <<setup, order, stale, missed, astray>>
    BY DEF Connect
  <1>3. call[c].who \in Adapters /\ cli.user # c
    BY <1>1, <1>2 DEF CallOK, Calling
  <1>4. StaleOK' /\ Own' = Own /\ (Judged' => Judged /\ call[c].who = Own)
    BY <1>2 DEF OwnInv, StaleOK, Own, Judged, KnownHid, Rightly
  <1>5. PICK a : a = call[c].who
    OBVIOUS
  <1>6. CASE Cached(a) /\ Enter(c, [cli EXCEPT !.user = c])
    <2>1. PICK cl : cl = [cli EXCEPT !.user = c]
      OBVIOUS
    <2>2. cl \in Client /\ cl.user = c /\ cl.by = cli.by /\ cl.open = cli.open
      BY <1>1, <2>1 DEF Client
    <2>3. cli.by = a /\ cli.user = "cache" /\ cli.open /\ cl.by # None
      BY <1>1, <1>3, <1>5, <1>6, <2>2, Vocabulary DEF Cached, ClientOK
    <2>4. Enter(c, cl)
      BY <1>6, <2>1
    <2>5. Entered(c, cl)
      BY <2>2, <2>3, <2>4, Entering DEF Held
    <2>6. \A d \in Callers \ {c} : cli.user # d
      BY <2>3, Vocabulary
    <2> QED BY <1>2, <1>4, <2>2, <2>3, <2>5, <2>6, OwnEntered
  <1>7. ASSUME call'[c].pc \in {"conn", "failed"}, call'[c].who = a,
               \A d \in Callers \ {c} : call'[d] = call[d],
               call'[c].pc = "conn" => call'[c].step = First(a),
               cli' = cli \/ (cli.user = None /\ cli'.user = c), UNCHANGED aborted
        PROVE  OwnInv'
    <2>1. Moved(c)
      BY <1>2, <1>7, Vocabulary DEF Moved
    <2>2. First(a) \notin {"r_uinfo", "r_nodes"}
      BY <1>3, <1>5 DEF First
    <2>3. Judged' => Rightly(c)' /\ (cli'.user = "cache" => cli'.by = Own)
      <3>1. Judged' => (cli'.user = "cache" => cli'.by = Own)
        BY <1>4, <1>7, Vocabulary DEF OwnInv
      <3>2. call'[c].pc = "conn" => Ladder(c)'
        BY <1>7, <2>2 DEF Ladder
      <3> QED BY <1>4, <1>5, <1>7, <3>1, <3>2 DEF Rightly
    <2> QED BY <1>2, <1>4, <1>7, <2>1, <2>3, OwnMoved
  <1>8. CASE /\ cli.by = None
             /\ cli' = [Fresh(a, c) EXCEPT !.open = (a = "zmk" => ~call[c].sig)]
             /\ call' = [call EXCEPT ![c].pc = "conn", ![c].step = First(a),
                                     ![c].hears = IF a = "zmk" THEN "pipes" ELSE @]
             /\ UNCHANGED <<aborted, ident, slipped>>
    <2>1. call'[c].pc = "conn" /\ call'[c].who = a /\ call'[c].step = First(a)
          /\ \A d \in Callers \ {c} : call'[d] = call[d]
      BY <1>1, <1>5, <1>8 DEF Calling
    <2>2. Fresh(a, c) \in Client /\ Fresh(a, c).user = c
      BY <1>3, <1>5, ClientTypes
    <2>3. cli'.user = c /\ cli.user = None
      BY <1>1, <1>8, <2>2, ClientTypes DEF Client, ClientOK
    <2> QED BY <1>7, <1>8, <2>1, <2>3
  <1>9. CASE call' = [call EXCEPT ![c].pc = "failed", ![c].step = "locked"]
             /\ UNCHANGED <<cli, aborted, ident, slipped>>
    <2>1. call'[c].pc = "failed" /\ call'[c].who = a /\ \A d \in Callers \ {c} : call'[d] = call[d]
      BY <1>1, <1>5, <1>9 DEF Calling
    <2> QED BY <1>7, <1>9, <2>1
  <1> QED BY <1>5, <1>6, <1>8, <1>9 DEF Connect

\* Told or let go, a client stays with its user or with nobody.
LEMMA Staying ==
    ASSUME cli \in Client, NEW c \in Callers, Told(c, cli') \/ LetGo(c)
    PROVE  cli' = cli \/ (cli.user = c /\ cli'.user \in {c, None})
  <1>1. CASE Told(c, cli')
    BY <1>1 DEF Told
  <1>2. CASE LetGo(c)
    <2>1. [cli EXCEPT !.open = FALSE].user = cli.user
      BY DEF Client
    <2> QED BY <1>2, <2>1, ClientTypes DEF LetGo
  <1> QED BY <1>1, <1>2

\* What one exchange leaves to prove.
LEMMA OwnAdvanced ==
    ASSUME Held, OwnInv, NEW c \in Callers, call[c].step \in Steps,
           NEW w, NEW next, NEW heard, Exchanged(c, w, next, heard),
           \A d \in Callers \ {c} : call'[d] = call[d],
           Told(c, cli') \/ LetGo(c), aborted => aborted',
           Judged' => Rightly(c)',
           Judged' /\ aborted' => \/ aborted /\ call[c].pc \notin {"conn", "failed", "service"}
                                  \/ KnownHid => setup.vid = "1209" /\ Own # "remappr"
                                  \/ call'[c].pc \in {"conn", "failed", "service"}
    PROVE  OwnInv'
  <1>1. cli \in Client /\ astray \in BOOLEAN /\ UNCHANGED <<setup, order>> /\ (astray => astray')
    BY DEF Held, TypeOK, Exchanged
  <1>2. StaleOK'
    BY HeardExchanged DEF OwnInv
  <1>3. cli' = cli \/ (cli.user = c /\ cli'.user \in {c, None})
    BY <1>1, Staying
  <1>4. Moved(c)
    BY <1>1, <1>3, Vocabulary DEF Moved
  <1>5. Judged' => (cli'.user = "cache" => cli'.by = Own)
    <2>1. Judged' => Judged
      BY <1>1 DEF Judged, KnownHid
    <2> QED BY <1>3, <2>1, Vocabulary DEF OwnInv
  <1> QED BY <1>1, <1>2, <1>4, <1>5, OwnMoved

LEMMA OwnGoesOn ==
    ASSUME Held, OwnInv, NEW c \in Callers, call[c].step \in Steps,
           call[c].pc \in {"pick", "conn"},
           NEW w, NEW next, NEW heard, Exchanged(c, w, next, heard), GoesOn(c, next, heard)
    PROVE  OwnInv'
  <1>1. call \in [Callers -> Calling] /\ call[c] \in Calling /\ CallOK(c) /\ aborted \in BOOLEAN
        /\ astray \in BOOLEAN
    BY DEF Held, TypeOK
  <1>2. UNCHANGED <<setup, order, aborted>> /\ Told(c, cli') /\ (astray => astray') /\ next \in Steps
    BY <1>1 DEF GoesOn, Exchanged
  <1>3. /\ call'[c].pc = call[c].pc /\ call'[c].who = call[c].who /\ call'[c].step = next
        /\ call'[c].at = call[c].at /\ \A d \in Callers \ {c} : call'[d] = call[d]
    BY <1>1 DEF GoesOn, Calling
  <1>4. "no" \notin Steps /\ "next" \notin Steps
    BY PartDomains, ScriptParts
  <1>5. ASSUME Judged'
        PROVE  Rightly(c)'
    <2>1. Judged /\ Rightly(c) /\ Own' = Own /\ (KnownHid' <=> KnownHid)
      BY <1>2, <1>5 DEF Judged, KnownHid, OwnInv, Own
    <2>2. ASSUME call[c].who = Own, call[c].step \in ProbeSteps(Own)
          PROVE  Ladder(c)'
      <3>1. CASE aborted
        BY <1>2, <3>1 DEF Ladder
      <3>2. CASE ~aborted
        <4>1. Ladder(c)
          BY <2>1, <2>2 DEF Rightly
        <4>2. /\ next = "r_uinfo" => setup.board # "openNode"
              /\ next = "r_nodes" => setup.board = "oldDongle"
          BY <1>5, <2>2, <3>2, <4>1, OwnExchange
        <4> QED BY <1>2, <1>3, <4>2 DEF Ladder
      <3> QED BY <3>1, <3>2
    <2>3. CASE call[c].pc = "pick"
      <3>1. call[c].step \in ProbeSteps(call[c].who)
        BY <2>3, ExchangeTypes
      <3>2. call[c].who # Own => next \in StraySteps
        BY <1>2, <1>4, <2>1, <2>3, StrayExchange
      <3>3. Refuses(call[c].who)' <=> Refuses(call[c].who)
        BY <1>2, <1>3 DEF Refuses
      <3>4. Asking(c) /\ call[c].step # "next"
        BY <1>4, <2>1, <2>3 DEF Rightly
      <3>5. Asking(c)'
        BY <1>2, <1>3, <2>1, <3>2, <3>3, <3>4 DEF Asking, Ahead
      <3> QED BY <1>3, <2>1, <2>2, <2>3, <3>1, <3>5 DEF Rightly
    <2>4. CASE call[c].pc = "conn"
      <3>1. call[c].who = Own
        BY <2>1, <2>4 DEF Rightly
      <3>2. CASE Probing(c)
        BY <1>3, <2>1, <2>2, <2>4, <3>1, <3>2 DEF Rightly, Probing
      <3>3. CASE Serving(c)
        <4>1. ServeGoes(call[c].who, call[c].step, w.good) /\ call[c].who \in Adapters
              /\ next = Goes(call[c].step, w.good)
          BY <2>4, <3>3, ExchangeTypes DEF Exchanged
        <4>2. next \in ServeSteps(call[c].who) \cup {"serve", "drop", "throw"}
          BY <4>1 DEF ServeGoes
        <4>3. next \notin {"r_uinfo", "r_nodes"}
          BY <4>1, <4>2, ScriptSets, Vocabulary
        <4>4. Ladder(c)'
          BY <1>3, <4>3 DEF Ladder
        <4> QED BY <1>3, <2>1, <2>4, <3>1, <4>4 DEF Rightly
      <3> QED BY <1>1, <2>4, <3>2, <3>3 DEF CallOK, Connecting
    <2> QED BY <2>3, <2>4
  <1> QED BY <1>2, <1>3, <1>5, OwnAdvanced

LEMMA OwnFound ==
    ASSUME Held, OwnInv, NEW c \in Callers, call[c].step \in Steps,
           NEW w, NEW next, NEW heard, Exchanged(c, w, next, heard), FoundInPick(c, next, heard)
    PROVE  OwnInv'
  <1>1. call \in [Callers -> Calling] /\ call[c] \in Calling /\ astray \in BOOLEAN
    BY DEF Held, TypeOK
  <1>2. UNCHANGED <<setup, order, aborted>> /\ Told(c, heard) /\ (astray => astray')
        /\ call[c].pc = "pick" /\ next = "found"
    BY <1>1 DEF FoundInPick, Exchanged
  <1>3. call'[c].pc = "picked" /\ call'[c].who = call[c].who
        /\ \A d \in Callers \ {c} : call'[d] = call[d]
    BY <1>1 DEF FoundInPick, Calling
  <1>4. Holds(c)
    BY <1>2, ExchangeTypes
  <1>5. cli'.user = "cache" /\ cli'.by = call[c].who /\ cli.user = c
    <2>1. heard \in Client /\ heard.by = call[c].who
      BY <1>2, <1>4 DEF Told, Holds
    <2>2. cli' = [heard EXCEPT !.user = "cache"]
      BY DEF FoundInPick
    <2> QED BY <1>4, <2>1, <2>2 DEF Client, Holds
  <1>6. Moved(c)
    BY <1>2, <1>3, <1>5, Vocabulary DEF Moved
  <1>7. Judged' => call[c].who = Own /\ Own' = Own
    <2>1. Judged' => Judged /\ Own' = Own
      BY <1>2 DEF Judged, KnownHid, Own
    <2>2. next \notin StraySteps \cup {"no"}
      BY <1>2 DEF StraySteps
    <2> QED BY <1>2, <2>1, <2>2, StrayExchange
  <1>8. StaleOK'
    BY HeardExchanged DEF OwnInv
  <1>9. Judged' => Rightly(c)'
    BY <1>3, <1>7 DEF Rightly
  <1>10. aborted' => aborted /\ call[c].pc \notin {"conn", "failed", "service"}
    BY <1>2
  <1> QED BY <1>2, <1>5, <1>6, <1>7, <1>8, <1>9, <1>10, OwnMoved

LEMMA OwnEnter ==
    ASSUME Held, OwnInv, NEW c \in Callers, call[c].step \in Steps,
           NEW w, NEW next, NEW heard, Exchanged(c, w, next, heard),
           next = "found", call[c].pc = "conn", Enter(c, heard)
    PROVE  OwnInv'
  <1>1. Entered(c, heard) /\ Probing(c) /\ heard \in Client /\ heard.by = call[c].who
        /\ heard.user = c
    BY EnterHolds
  <1>2. call[c].who \in Adapters /\ astray \in BOOLEAN
    BY ExchangeTypes DEF Held, TypeOK
  <1>3. heard.by # None /\ \A d \in Callers \ {c} : cli.user # d
    BY <1>1, <1>2, Vocabulary DEF Probing, Holds
  <1>4. UNCHANGED <<setup, order>> /\ (astray => astray')
    BY <1>2 DEF Exchanged
  <1>5. StaleOK'
    BY HeardExchanged DEF OwnInv
  <1> QED BY <1>1, <1>3, <1>4, <1>5, OwnEntered

LEMMA OwnRefused ==
    ASSUME Held, OwnInv, NEW c \in Callers, call[c].step \in Steps,
           call[c].pc \in {"pick", "conn"},
           NEW w, NEW next, NEW heard, Exchanged(c, w, next, heard), RefusedThere(c, next)
    PROVE  OwnInv'
  <1>1. call \in [Callers -> Calling] /\ call[c] \in Calling /\ CallOK(c) /\ aborted \in BOOLEAN
        /\ astray \in BOOLEAN /\ order \in Seq(Adapters)
    BY DEF Held, TypeOK
  <1>2. UNCHANGED <<setup, order>> /\ (astray => astray') /\ next = "no"
    BY <1>1 DEF RefusedThere, Exchanged
  <1>3. "no" \notin Steps /\ "next" \notin Steps
    BY PartDomains, ScriptParts
  <1>4. call[c].who \in Adapters /\ Holds(c) /\ (call[c].pc = "conn" => Probing(c))
    <2>1. CASE call[c].pc = "pick"
      BY <2>1, ExchangeTypes
    <2>2. CASE call[c].pc = "conn" /\ Probing(c)
      BY <2>2, ExchangeTypes DEF Probing
    <2>3. CASE call[c].pc = "conn" /\ Serving(c)
      <3>1. ServeGoes(call[c].who, call[c].step, w.good) /\ next = Goes(call[c].step, w.good)
            /\ call[c].who \in Adapters
        BY <2>3, ExchangeTypes DEF Exchanged
      <3>2. next \in Steps \cup {"serve", "drop", "throw"}
        BY <3>1, ScriptSets DEF ServeGoes
      <3> QED BY <1>2, <1>3, <3>2
    <2> QED BY <1>1, <2>1, <2>2, <2>3 DEF CallOK, Connecting
  <1>5. LetGo(c) /\ aborted' \in BOOLEAN /\ (aborted => aborted')
    BY <1>4, Refusing DEF RefusedThere
  <1>6. CASE call[c].pc = "conn"
    <2>1. call'[c].pc = "failed" /\ \A d \in Callers \ {c} : call'[d] = call[d]
      BY <1>1, <1>6 DEF RefusedThere, Calling
    <2>2. Rightly(c)'
      BY <2>1 DEF Rightly
    <2> QED BY <1>5, <2>1, <2>2, OwnAdvanced
  <1>7. CASE call[c].pc = "pick"
    <2>1. PICK m \in Nat : m = call[c].at + 1
      BY <1>1 DEF Calling
    <2>2. /\ call'[c].pc = "pick" /\ call'[c].step = "next" /\ call'[c].at = m
          /\ \A d \in Callers \ {c} : call'[d] = call[d]
      BY <1>1, <1>7, <2>1 DEF RefusedThere, Calling
    <2>3. call[c].step \in ProbeSteps(call[c].who) /\ call[c].step # "next"
      BY <1>3, <1>7, ExchangeTypes
    <2>4. ASSUME Judged'
          PROVE  /\ Judged /\ Rightly(c) /\ Asking(c) /\ Own' = Own /\ (KnownHid' <=> KnownHid)
                 /\ ~aborted => call[c].who # Own
      <3>1. Judged /\ Rightly(c) /\ Own' = Own /\ (KnownHid' <=> KnownHid)
        BY <1>2, <2>4 DEF Judged, KnownHid, OwnInv, Own
      <3>2. Asking(c) /\ (call[c].who = Own => Ladder(c))
        BY <1>7, <3>1 DEF Rightly
      <3>3. ~aborted => call[c].who # Own
        BY <1>2, <1>7, <2>3, <2>4, <3>2, OwnExchange
      <3> QED BY <3>1, <3>2, <3>3
    <2>5. ASSUME Judged'
          PROVE  Rightly(c)'
      <3>1. KnownHid => Ahead(c)' \/ aborted'
        <4> SUFFICES ASSUME KnownHid, ~aborted
                     PROVE  Ahead(c)'
          BY <1>5
        <4>1. Ahead(c) /\ order[call[c].at] = call[c].who /\ call[c].who # Own
          BY <2>3, <2>4, <2>5 DEF Asking
        <4>2. DOMAIN order = 1..Len(order) /\ call[c].at \in Nat
          BY <1>1 DEF Calling
        <4> QED BY <1>2, <2>1, <2>2, <2>4, <2>5, <4>1, <4>2 DEF Ahead
      <3>2. Asking(c)' /\ Ladder(c)'
        BY <2>2, <2>4, <2>5, <3>1 DEF Asking, Ladder
      <3> QED BY <2>2, <3>2 DEF Rightly
    <2>6. ASSUME Judged', aborted', ~aborted, KnownHid
          PROVE  setup.vid = "1209" /\ Own # "remappr"
      <3>1. ~Refuses(call[c].who) /\ call[c].at \in DOMAIN order
            /\ order[call[c].at] = call[c].who /\ call[c].who # Own
        BY <2>3, <2>4, <2>6 DEF Asking
      <3>2. call[c].who \notin RawHid
        BY <2>6 DEF RefusedThere, Refused, Close
      <3>3. call[c].who # "zmk"
        BY <2>6, <3>1 DEF Refuses, KnownHid
      <3>4. call[c].who = "remappr"
        BY <1>4, <3>2, <3>3 DEF Adapters, RawHid
      <3> QED BY <2>6, <3>1, <3>4 DEF OwnInv, InOrder
    <2> QED BY <1>5, <1>7, <2>2, <2>5, <2>6, OwnAdvanced
  <1> QED BY <1>6, <1>7

LEMMA OwnEnded ==
    ASSUME Held, OwnInv, NEW c \in Callers, call[c].step \in Steps,
           call[c].pc \in {"pick", "conn"},
           NEW w, NEW next, NEW heard, Exchanged(c, w, next, heard),
           GivenUp(c, next, heard) \/ Served(c, next, heard)
    PROVE  OwnInv'
  <1>1. call \in [Callers -> Calling] /\ call[c] \in Calling /\ aborted \in BOOLEAN
        /\ astray \in BOOLEAN
    BY DEF Held, TypeOK
  <1>2. call[c].pc = "conn" /\ call[c].who \in Adapters
    BY GivenUpHolds, ExchangeTypes
  <1>3. call'[c].pc \in {"failed", "service"} /\ call'[c].who = call[c].who
        /\ \A d \in Callers \ {c} : call'[d] = call[d]
    BY <1>1 DEF GivenUp, Served, Calling
  <1>4. (Told(c, cli') \/ LetGo(c)) /\ (aborted => aborted')
    <2>1. Told(c, heard)
      BY DEF Exchanged
    <2>2. CASE GivenUp(c, next, heard) /\ next = "drop"
      <3>1. CloseAbort(call[c].who, c)
        BY <2>2 DEF GivenUp
      <3> QED BY <1>2, <3>1, CloseAborts
    <2>3. CASE ~(GivenUp(c, next, heard) /\ next = "drop")
      BY <2>1, <2>3 DEF GivenUp, Served
    <2> QED BY <2>2, <2>3
  <1>5. Judged' => Rightly(c)'
    <2>1. Judged' => Judged /\ Own' = Own
      BY <1>1 DEF Judged, KnownHid, Own, Exchanged
    <2> QED BY <1>2, <1>3, <2>1 DEF OwnInv, Rightly
  <1> QED BY <1>3, <1>4, <1>5, OwnAdvanced

LEMMA OwnExchanged ==
    ASSUME Held, OwnInv, NEW c \in Callers, Exchange(c)
    PROVE  OwnInv'
  <1>1. PICK w, next, heard :
            /\ Exchanged(c, w, next, heard)
            /\ \/ GoesOn(c, next, heard)
               \/ FoundInPick(c, next, heard)
               \/ next = "found" /\ call[c].pc = "conn" /\ Enter(c, heard)
               \/ RefusedThere(c, next)
               \/ GivenUp(c, next, heard)
               \/ Served(c, next, heard)
    BY Exchanging
  <1>2. call[c].step \in Steps /\ call[c].pc \in {"pick", "conn"}
    BY Exchanging
  <1> QED BY <1>1, <1>2, OwnGoesOn, OwnFound, OwnEnter, OwnRefused, OwnEnded

LEMMA OwnAbort ==
    ASSUME Held, OwnInv, NEW c \in Callers, Abort(c)
    PROVE  OwnInv'
  <1>1. call \in [Callers -> Calling] /\ call[c] \in Calling /\ aborted \in BOOLEAN
        /\ cli \in Client /\ CallOK(c) /\ ClientOK
    BY DEF Held, TypeOK
  <1>2. call[c].pc \in {"picked", "conn", "service"} /\ UNCHANGED <<setup, order, stale, astray>>
    BY DEF Abort
  <1>3. call[c].who \in Adapters
    BY <1>1, <1>2 DEF CallOK, Calling
  <1>4. /\ call'[c].pc = call[c].pc /\ call'[c].who = call[c].who /\ call'[c].step = call[c].step
        /\ \A d \in Callers \ {c} : call'[d] = call[d]
    BY <1>1 DEF Abort, Calling
  <1>5. LetGo(c) /\ (aborted => aborted') /\ (call[c].hears = "no" => aborted' = aborted)
    <2>1. CASE call[c].hears = "yes"
      <3>1. CloseAbort(call[c].who, c)
        BY <2>1 DEF Abort
      <3> QED BY <1>3, <2>1, <3>1, CloseAborts
    <2>2. CASE call[c].hears = "pipes"
      <3>1. cli' = (IF cli.user = c THEN [cli EXCEPT !.open = FALSE] ELSE cli) /\ UNCHANGED aborted
        BY <2>2 DEF Abort
      <3>2. cli.user = c => cli.by = "zmk"
        BY <1>1, <1>2, <1>3, <2>2 DEF CallOK, Connecting, Probing, Serving, ClientOK
      <3> QED BY <3>1, <3>2 DEF LetGo
    <2>3. CASE call[c].hears \notin {"yes", "pipes"}
      BY <2>3 DEF Abort, LetGo
    <2> QED BY <2>1, <2>2, <2>3
  <1>6. cli' = cli \/ (cli.user = c /\ cli'.user \in {c, None})
    BY <1>1, <1>5, Staying
  <1>7. Moved(c)
    BY <1>2, <1>4, <1>5, <1>6, Vocabulary DEF Moved
  <1>8. StaleOK'
    BY <1>2 DEF OwnInv, StaleOK
  <1>9. Judged' => Rightly(c)' /\ (cli'.user = "cache" => cli'.by = Own)
    <2>1. Judged' => Judged /\ Own' = Own
      BY <1>2 DEF Judged, KnownHid, Own
    <2>2. Ladder(c) => Ladder(c)'
      BY <1>1, <1>2, <1>4, <1>5 DEF Ladder
    <2>3. Judged' => Rightly(c)'
      BY <1>2, <1>4, <2>1, <2>2 DEF OwnInv, Rightly
    <2> QED BY <1>6, <2>1, <2>3, Vocabulary DEF OwnInv
  <1>10. call[c].pc = "picked" => aborted' = aborted
    BY <1>1, <1>5 DEF CallOK
  <1> QED BY <1>2, <1>4, <1>7, <1>8, <1>9, <1>10, OwnMoved

LEMMA OwnStill ==
    ASSUME OwnInv, UNCHANGED <<setup, order, transportVars, call>>
    PROVE  OwnInv'
  <1>1. UNCHANGED <<setup, order, aborted, cli, stale, astray, call>>
    BY DEF transportVars
  <1>2. StaleOK' /\ (KnownHid' <=> KnownHid) /\ Own' = Own /\ (Judged' => Judged)
    BY <1>1 DEF OwnInv, StaleOK, KnownHid, Own, Judged
  <1>3. InOrder => InOrder'
    BY <1>1, <1>2 DEF InOrder
  <1>4. Blamed => Blamed'
    BY <1>1, <1>2 DEF Blamed
  <1>5. \A c \in Callers : Rightly(c) => Rightly(c)'
    BY <1>1, <1>2 DEF Rightly, Asking, Ahead, Ladder, Refuses
  <1> QED BY <1>1, <1>2, <1>3, <1>4, <1>5 DEF OwnInv

\* Before anybody has called, and with a new transport.
LEMMA OwnAtRest ==
    (KnownHid => InOrder) /\ aborted = FALSE /\ cli = NoClient /\ stale = None
        /\ call = [c \in Callers |-> Idle] => OwnInv
  <1> SUFFICES ASSUME KnownHid => InOrder, aborted = FALSE, cli = NoClient, stale = None,
                      call = [c \in Callers |-> Idle]
               PROVE  OwnInv
    OBVIOUS
  <1>1. StaleOK /\ Blamed /\ cli.user # "cache"
    BY ClientTypes, Vocabulary DEF StaleOK, Blamed
  <1>2. \A c \in Callers : Rightly(c)
    BY DEF Idle, Rightly
  <1> QED BY <1>1, <1>2 DEF OwnInv

LEMMA OwnReopen ==
    ASSUME OwnInv, NEW restart \in BOOLEAN, Reopen(restart)
    PROVE  OwnInv'
  <1>1. /\ aborted' = FALSE /\ cli' = NoClient /\ stale' = None
        /\ call' = [c \in Callers |-> Idle] /\ UNCHANGED <<setup, order>>
    BY DEF Reopen
  <1>2. (KnownHid => InOrder)'
    BY <1>1 DEF OwnInv, KnownHid, InOrder, Own
  <1>3. ((KnownHid => InOrder) /\ aborted = FALSE /\ cli = NoClient /\ stale = None
            /\ call = [c \in Callers |-> Idle] => OwnInv)'
    BY OwnAtRest, PTL
  <1> QED BY <1>1, <1>2, <1>3

\* pickAdapter's sort asks the owner, and asks it before VIA (registry.ts:61-73).
LEMMA OwnSorted ==
    ASSUME SettingOK, KnownHid, NEW registered \in Orders, order = Candidates(registered)
    PROVE  InOrder
  <1>1. /\ order \in [1..Cardinality(Asked) -> Asked] /\ Ordered(registered, order)
        /\ \A a \in Asked : \E i \in DOMAIN order : order[i] = a
    BY CandidatesSorted
  <1>2. Own \in Adapters /\ setup.kind = "hid"
    BY Owners DEF Own, SettingOK, KnownHid
  <1>3. /\ Own # "zmk" /\ (Own = "remappr" => setup.vid = "1209")
        /\ (Own = "keychron" => setup.vid = "3434")
    BY <1>2 DEF SettingOK, Own
  <1>4. Rank(Own) < 2 /\ Rank("via") = 1 /\ Rank(Own) <= 1
        /\ (Own # "via" => Rank(Own) = 0 \/ (Rank(Own) = 1 /\ Own = "vial"))
    BY <1>2, <1>3 DEF Rank, Adapters
  <1>5. Own \in Asked /\ ("remappr" \in Asked => setup.vid = "1209")
    BY <1>2, <1>4 DEF Asked, Rank
  <1>6. Own # "via" => ~Earlier(registered, "via", Own)
    BY <1>4 DEF Earlier, Priority
  <1>7. PICK i \in DOMAIN order : order[i] = Own
    BY <1>1, <1>5
  <1>8. \A k \in DOMAIN order : order[k] = "via" /\ Own # "via" => i < k
    <2> SUFFICES ASSUME NEW k \in DOMAIN order, order[k] = "via", Own # "via"
                 PROVE  i < k
      OBVIOUS
    <2>1. ~(k < i)
      BY <1>1, <1>6, <1>7 DEF Ordered
    <2>2. k # i
      BY <1>7
    <2>3. k \in Int /\ i \in Int
      BY <1>1, <1>7
    <2> QED BY <2>1, <2>2, <2>3
  <1>9. \A k \in DOMAIN order : order[k] = "remappr" => setup.vid = "1209"
    BY <1>1, <1>5
  <1> QED BY <1>7, <1>8, <1>9 DEF InOrder

LEMMA OwnInit == Init => OwnInv
  <1> SUFFICES ASSUME Init
               PROVE  OwnInv
    OBVIOUS
  <1>1. SettingOK
    BY InitHolds DEF Held
  <1>2. PICK registered \in Orders : order = Candidates(registered)
    BY DEF Init
  <1>3. KnownHid => InOrder
    BY <1>1, <1>2, OwnSorted
  <1> QED BY <1>3, OwnAtRest DEF Init

LEMMA OwnNext == Held /\ Held' /\ OwnInv /\ [Next]_vars => OwnInv'
  <1> SUFFICES ASSUME Held, Held', OwnInv, [Next]_vars
               PROVE  OwnInv'
    OBVIOUS
  <1>1. ASSUME NEW c \in Callers,
               Pick(c) \/ Name(c) \/ TryNext(c) \/ Connect(c) \/ Exchange(c) \/ Abort(c)
        PROVE  OwnInv'
    BY <1>1, OwnPicks, OwnTry, OwnConnect, OwnExchanged, OwnAbort
  <1>2. CASE Prepare \/ Warmed \/ ReadFails \/ Saved \/ SaveFails
    BY <1>2, OwnStill DEF Prepare, Warmed, ReadFails, Saved, SaveFails
  <1>3. CASE \E restart \in BOOLEAN : Reopen(restart)
    BY <1>3, OwnReopen
  <1>4. CASE UNCHANGED vars
    BY <1>4, OwnStill DEF vars
  <1> QED BY <1>1, <1>2, <1>3, <1>4 DEF Next

\* Over HID with a vendor id, in whatever order the adapters registered, a board is
\* picked by its own adapter, and picked, unless that adapter's probe was misheard
\* or a Remappr probe of its vendor id left it a dead transport (registry.ts:46-81).
THEOREM OwnerTheorem == Spec => []OwnerWins
  <1>1. Held /\ OwnInv => OwnerWins
    <2> SUFFICES ASSUME Held, OwnInv, KnownHid, ~astray, NEW c \in Callers
                 PROVE  /\ call[c].pc \in {"picked", "conn", "service"} => call[c].who = Own
                        /\ call[c].pc = "null" /\ Alone(c) => setup.vid = "1209" /\ Own # "remappr"
      BY DEF OwnerWins, Own
    <2>1. Rightly(c) /\ Blamed
      BY DEF OwnInv, Judged
    <2>2. ASSUME call[c].pc = "null", Alone(c)
          PROVE  setup.vid = "1209" /\ Own # "remappr"
      <3>1. \A d \in Callers : call[d].pc \notin {"conn", "failed", "service"}
        BY <2>2 DEF Alone
      <3> QED BY <2>1, <2>2, <3>1 DEF Rightly, Blamed
    <2> QED BY <2>1, <2>2 DEF Rightly
  <1> QED BY <1>1, OwnInit, OwnNext, HeldAlways, PTL DEF Spec

(***************************************************************************)
(* What the caller gets: RightService.                                     *)
(***************************************************************************)
FSteps == DOMAIN ConnectWithoutDeviceDef

\* A Vial board that was never misheard leaves nothing behind, and its definition
\* was read unless its transport died.
Clean ==
    setup.board = "vial" /\ missed = 0 =>
        /\ stale = None /\ ~cli.orphan
        /\ \A c \in Callers : call[c].pc = "conn" /\ call[c].step \in FSteps => aborted

Fits(c) ==
    call[c].pc = "service" =>
        \/ call[c].svc = Fitting(setup.board)
        \/ setup.board = "mutedVial" /\ call[c].svc = "via" /\ call[c].note
        \/ setup.board = "vial" /\ call[c].svc = "via" /\ call[c].note /\ missed > 0

Dongles == {"dongle", "oldDongle"}
RightInv ==
    /\ Clean
    /\ Judged => /\ cli.dongle => setup.board \in Dongles
                 /\ \A c \in Callers : Fits(c)

LEMMA WayCounts ==
    ASSUME NEW c \in Callers, NEW v, NEW w \in Ways(c, v)
    PROVE  w.missed \in {0, 1}
  <1>1. CASE ~Mine(c) \/ aborted
    <2>1. w = Way(FALSE, cli.orphan, stale, 0)
      BY <1>1 DEF Ways
    <2> QED BY <2>1 DEF Way
  <1>2. CASE ~(~Mine(c) \/ aborted) /\ cli.by \notin RawHid
    <2>1. \/ w = Way(Knows(v), FALSE, stale, 0)
          \/ \E n \in {1} \cap (0..MaxMissed - missed) : w = Way(FALSE, FALSE, stale, n)
      BY <1>2 DEF Ways
    <2> QED BY <2>1 DEF Way
  <1>3. CASE ~(~Mine(c) \/ aborted) /\ cli.by \in RawHid
    <2>1. \E g, o, l : w = Way(g, o, l, 0) \/ w = Way(g, o, l, 1)
      <3>1. CASE ~cli.orphan /\ ~cli.pump /\ stale # None
        <4>1. w = Way(stale = v, FALSE, IF Replies(v) THEN Tag(v) ELSE None, 0)
          BY <1>3, <3>1 DEF Ways
        <4> QED BY <4>1
      <3>2. CASE ~(~cli.orphan /\ ~cli.pump /\ stale # None) /\ cli.orphan /\ stale = None
        <4>1. w = Way(FALSE, ~(cli.pump /\ Replies(v)), None, 0)
          BY <1>3, <3>2 DEF Ways
        <4> QED BY <4>1
      <3>3. CASE ~(~cli.orphan /\ ~cli.pump /\ stale # None) /\ ~(cli.orphan /\ stale = None)
        <4>1. \/ w = Way(Knows(v), ~cli.pump /\ ~Replies(v), None, 0)
              \/ \E left \in {None, Tag(v)} : w = Way(FALSE, ~cli.pump, left, 1)
          BY <1>3, <3>3 DEF Ways
        <4> QED BY <4>1
      <3> QED BY <3>1, <3>2, <3>3
    <2>2. PICK g, o, l : w = Way(g, o, l, 0) \/ w = Way(g, o, l, 1)
      BY <2>1
    <2> QED BY <2>2 DEF Way
  <1> QED BY <1>1, <1>2, <1>3

\* A clean Vial board answers what it understands, and every frame.
LEMMA CleanWay ==
    ASSUME Held, Clean, setup.board = "vial", missed = 0,
           NEW c \in Callers, NEW v, NEW w \in Ways(c, v), w.missed = 0
    PROVE  /\ w.stale = None /\ ~w.orphan
           /\ Mine(c) /\ ~aborted => w.good = Knows(v)
  <1>1. stale = None /\ ~cli.orphan
    BY DEF Clean
  <1>2. Replies(v)
    BY DEF Replies, Silent, Owner, RawHid
  <1>3. CASE ~Mine(c) \/ aborted
    <2>1. w = Way(FALSE, cli.orphan, stale, 0)
      BY <1>3 DEF Ways
    <2>2. w.orphan = cli.orphan /\ w.stale = stale
      BY <2>1 DEF Way
    <2> QED BY <1>1, <1>3, <2>2
  <1>4. CASE ~(~Mine(c) \/ aborted) /\ cli.by \notin RawHid
    <2>1. \/ w = Way(Knows(v), FALSE, stale, 0)
          \/ \E n \in {1} \cap (0..MaxMissed - missed) : w = Way(FALSE, FALSE, stale, n)
      BY <1>4 DEF Ways
    <2>2. w = Way(Knows(v), FALSE, stale, 0)
      BY <2>1 DEF Way
    <2> QED BY <1>1, <2>2 DEF Way
  <1>5. CASE ~(~Mine(c) \/ aborted) /\ cli.by \in RawHid
    <2>1. \/ w = Way(Knows(v), ~cli.pump /\ ~Replies(v), None, 0)
          \/ \E left \in {None, Tag(v)} : w = Way(FALSE, ~cli.pump, left, 1)
      BY <1>1, <1>5 DEF Ways
    <2>2. w = Way(Knows(v), ~cli.pump /\ ~Replies(v), None, 0)
      BY <2>1 DEF Way
    <2>3. w.orphan = (~cli.pump /\ ~Replies(v)) /\ w.stale = None /\ w.good = Knows(v)
      BY <2>2 DEF Way
    <2> QED BY <1>2, <2>3
  <1> QED BY <1>3, <1>4, <1>5

\* What the asker's client has learnt, as far as the service is concerned.
LEMMA Learning ==
    ASSUME Held, NEW c \in Callers, NEW s, NEW w, w.good \in BOOLEAN, w.orphan \in BOOLEAN,
           NEW heard, heard = HeardBy(c, s, w)
    PROVE  /\ heard.orphan => (cli.user = c /\ w.orphan) \/ (cli.user # c /\ cli.orphan)
           /\ heard.dongle => \/ cli.dongle
                              \/ cli.user = c /\ w.good /\ s = "r_nodes"
                              \/ s = "r_pers" /\ setup.board = "dongle"
  <1>1. cli \in Client
    BY DEF Held, TypeOK
  <1>2. CASE cli.user # c
    BY <1>2 DEF HeardBy
  <1>3. CASE cli.user = c
    <2>1. PICK l : l = Learns(cli, s, w.good)
      OBVIOUS
    <2>2. heard = [l EXCEPT !.orphan = w.orphan]
      BY <1>3, <2>1 DEF HeardBy
    <2>3. \/ l = [cli EXCEPT !.dongle = TRUE] /\ s = "r_nodes" /\ w.good
          \/ l = [cli EXCEPT !.dongle = (setup.board = "dongle")] /\ s = "r_pers"
          \/ l = [cli EXCEPT !.caps = IF setup.board = "openNode" THEN "open" ELSE "auth"]
          \/ l = [cli EXCEPT !.pump = w.good]
          \/ l = cli
      BY <2>1 DEF Learns
    <2>4. ASSUME l \in Client, l.dongle => \/ cli.dongle
                                           \/ w.good /\ s = "r_nodes"
                                           \/ s = "r_pers" /\ setup.board = "dongle"
          PROVE  /\ heard.orphan => w.orphan
                 /\ heard.dongle => \/ cli.dongle
                                    \/ w.good /\ s = "r_nodes"
                                    \/ s = "r_pers" /\ setup.board = "dongle"
      BY <2>2, <2>4 DEF Client
    <2>5. CASE l = [cli EXCEPT !.dongle = TRUE] /\ s = "r_nodes" /\ w.good
      <3>1. l \in Client
        BY <1>1, <2>5 DEF Client
      <3> QED BY <1>3, <2>4, <2>5, <3>1
    <2>6. CASE l = [cli EXCEPT !.dongle = (setup.board = "dongle")] /\ s = "r_pers"
      <3>1. PICK b \in BOOLEAN : b = (setup.board = "dongle")
        OBVIOUS
      <3>2. l \in Client /\ l.dongle = b
        BY <1>1, <2>6, <3>1 DEF Client
      <3> QED BY <1>3, <2>4, <2>6, <3>1, <3>2
    <2>7. CASE l = [cli EXCEPT !.caps = IF setup.board = "openNode" THEN "open" ELSE "auth"]
      <3>1. PICK b \in {"open", "auth"} : b = IF setup.board = "openNode" THEN "open" ELSE "auth"
        OBVIOUS
      <3>2. l \in Client /\ l.dongle = cli.dongle
        BY <1>1, <2>7, <3>1 DEF Client
      <3> QED BY <1>3, <2>4, <3>2
    <2>8. CASE l = [cli EXCEPT !.pump = w.good]
      <3>1. l \in Client /\ l.dongle = cli.dongle
        BY <1>1, <2>8 DEF Client
      <3> QED BY <1>3, <2>4, <3>1
    <2>9. CASE l = cli
      BY <1>1, <1>3, <2>4, <2>9
    <2> QED BY <2>3, <2>5, <2>6, <2>7, <2>8, <2>9
  <1> QED BY <1>2, <1>3

LEMMA HeardRight ==
    ASSUME Held, OwnInv, RightInv, NEW c \in Callers, call[c].step \in Steps,
           call[c].pc \in {"pick", "conn"},
           NEW w, NEW next, NEW heard, Exchanged(c, w, next, heard)
    PROVE  /\ missed' >= missed
           /\ Judged => (heard.dongle => setup.board \in Dongles)
           /\ setup.board = "vial" /\ missed' = 0 =>
                 /\ missed = 0 /\ stale' = None /\ ~heard.orphan
                 /\ Mine(c) /\ ~aborted => w.good = Knows(Script[call[c].step].ask)
  <1>1. PICK s, v, a : s = call[c].step /\ v = Script[s].ask /\ a = call[c].who
    OBVIOUS
  <1>2. /\ w \in Ways(c, v) /\ w.good \in BOOLEAN /\ heard = HeardBy(c, s, w)
        /\ stale' = w.stale /\ missed' = missed + w.missed
    BY <1>1 DEF Exchanged
  <1>3. w.missed \in {0, 1} /\ w.orphan \in BOOLEAN /\ missed \in Nat
    BY <1>2, WayCounts, WayTypes, BoundsAssumption DEF Held, TypeOK
  <1>4. /\ heard.orphan => (cli.user = c /\ w.orphan) \/ (cli.user # c /\ cli.orphan)
        /\ heard.dongle => \/ cli.dongle
                           \/ cli.user = c /\ w.good /\ s = "r_nodes"
                           \/ s = "r_pers" /\ setup.board = "dongle"
    BY <1>2, <1>3, Learning
  <1>5. missed' >= missed
    BY <1>2, <1>3
  <1>6. ASSUME setup.board = "vial", missed' = 0
        PROVE  /\ missed = 0 /\ stale' = None /\ ~heard.orphan
               /\ Mine(c) /\ ~aborted => w.good = Knows(v)
    <2>1. missed = 0 /\ w.missed = 0
      BY <1>2, <1>3, <1>6
    <2>2. Clean
      BY DEF RightInv
    <2>3. /\ w.stale = None /\ ~w.orphan
          /\ Mine(c) /\ ~aborted => w.good = Knows(v)
      BY <1>2, <1>6, <2>1, <2>2, CleanWay
    <2> QED BY <1>2, <1>4, <1>6, <2>1, <2>2, <2>3 DEF Clean
  <1>7. ASSUME Judged, w.good, s = "r_nodes"
        PROVE  setup.board \in Dongles
    <2>1. v = "nodes" /\ v \in Says(setup.board) /\ ~aborted
      <3>1. w.good => Script[call[c].step].ask \in Says(setup.board) /\ ~aborted
        BY HeardExchanged DEF OwnInv
      <3> QED BY <1>1, <1>7, <3>1, RemapprRows DEF Step
    <2>2. Own = "remappr"
      BY <2>1, Spoken DEF Own, Held, SettingOK
    <2>3. a \in Adapters /\ (s \in ProbeSteps(a) \/ s \in ServeSteps(a))
      <3>1. CallOK(c)
        BY DEF Held
      <3> QED BY <1>1, <3>1, ExchangeTypes DEF CallOK, Connecting, Probing, Serving
    <2>4. a = "remappr"
      BY <1>7, <2>3, ScriptSets, Vocabulary
    <2>5. Ladder(c)
      BY <1>1, <1>7, <2>2, <2>4 DEF OwnInv, Rightly
    <2> QED BY <1>1, <1>7, <2>1, <2>5 DEF Ladder, Dongles
  <1>8. Judged => (heard.dongle => setup.board \in Dongles)
    BY <1>4, <1>7 DEF RightInv, Dongles
  <1> QED BY <1>1, <1>5, <1>6, <1>8

\* What one caller's step leaves to prove.
LEMMA RightMoved ==
    ASSUME Held, RightInv, NEW c \in Callers, \A d \in Callers \ {c} : call'[d] = call[d],
           UNCHANGED setup, aborted => aborted', astray => astray', missed' \in Nat,
           missed' >= missed,
           setup.board = "vial" /\ missed' = 0 =>
               /\ stale' = None /\ ~cli'.orphan
               /\ call'[c].pc = "conn" /\ call'[c].step \in FSteps => aborted',
           Judged' => (cli'.dongle => setup.board \in Dongles) /\ Fits(c)'
    PROVE  RightInv'
  <1>1. missed \in Nat
    BY BoundsAssumption DEF Held, TypeOK
  <1>2. Clean'
    <2>1. ASSUME setup.board = "vial", missed' = 0, NEW d \in Callers \ {c},
                 call'[d].pc = "conn", call'[d].step \in FSteps
          PROVE  aborted'
      <3>1. missed = 0 /\ call'[d] = call[d]
        BY <1>1, <2>1
      <3> QED BY <2>1, <3>1 DEF RightInv, Clean
    <2> QED BY <2>1 DEF Clean, FSteps, ConnectWithoutDeviceDef
  <1>3. ASSUME Judged', NEW d \in Callers \ {c}
        PROVE  Fits(d)'
    <2>1. Judged
      BY <1>3 DEF Judged, KnownHid
    <2>2. Fits(d) /\ call'[d] = call[d] /\ (missed > 0 => missed' > 0)
      BY <1>1, <1>3, <2>1 DEF RightInv
    <2> QED BY <2>2 DEF Fits
  <1> QED BY <1>2, <1>3 DEF RightInv

\* What becomes of a client keeps what it knows, or knows nothing.
LEMMA Derived ==
    ASSUME NEW cl \in Client, NEW x,
           \/ x = cl \/ x = NoClient \/ x = [cl EXCEPT !.open = FALSE]
           \/ \E u : x = [cl EXCEPT !.user = u]
           \/ \E k : x = [cl EXCEPT !.key = k]
    PROVE  (x.orphan => cl.orphan) /\ (x.dongle => cl.dongle)
  BY DEF Client, NoClient

\* Those who are led on from a probe are served right, if at once.
LEMMA RightEntered ==
    ASSUME Held, OwnInv, NEW c \in Callers, NEW cl \in Client, Entered(c, cl), UNCHANGED setup,
           cl.by # None, cl.by = call[c].who, call[c].pc \in {"picked", "conn"},
           Judged => (cl.dongle => setup.board \in Dongles)
    PROVE  /\ \A d \in Callers \ {c} : call'[d] = call[d]
           /\ aborted => aborted'
           /\ (cli'.orphan => cl.orphan) /\ (cli'.dongle => cl.dongle)
           /\ call'[c].pc = "conn" => call'[c].step \notin FSteps
           /\ Judged => Fits(c)'
  <1>1. call \in [Callers -> Calling] /\ call[c] \in Calling
    BY DEF Held, TypeOK
  <1>2. AfterProbe(cl) \notin FSteps
        /\ (AfterProbe(cl) = "serve" => cl.by = "zmk" \/ (cl.by = "remappr" /\ cl.dongle))
    BY AfterProbing DEF FSteps
  <1>3. CASE /\ call' = [call EXCEPT ![c].pc = "failed", ![c].step = "signal"]
             /\ UNCHANGED <<ident, slipped>>
             /\ \/ cli' = NoClient /\ (aborted => aborted')
                \/ cli' = [cl EXCEPT !.open = FALSE] /\ cl.by = "zmk" /\ aborted'
             /\ aborted' \in BOOLEAN
    <2>1. call'[c].pc = "failed" /\ \A d \in Callers \ {c} : call'[d] = call[d]
      BY <1>1, <1>3 DEF Calling
    <2>2. (cli'.orphan => cl.orphan) /\ (cli'.dongle => cl.dongle)
      BY <1>3, Derived
    <2> QED BY <1>3, <2>1, <2>2 DEF Fits
  <1>4. CASE /\ AfterProbe(cl) = "serve"
             /\ UNCHANGED <<ident, slipped, aborted>> /\ cli' = cl
             /\ \E h \in {"pipes", "yes"} :
                  /\ h = "pipes" => call[c].hears = "pipes"
                  /\ call' = [call EXCEPT ![c].pc = "service", ![c].step = "serve", ![c].hears = h,
                                       ![c].svc = IF cl.by = "zmk" THEN "zmk" ELSE "dongle"]
    <2>1. PICK h \in {"pipes", "yes"} :
            call' = [call EXCEPT ![c].pc = "service", ![c].step = "serve", ![c].hears = h,
                                 ![c].svc = IF cl.by = "zmk" THEN "zmk" ELSE "dongle"]
      BY <1>4
    <2>2. PICK v : v = IF cl.by = "zmk" THEN "zmk" ELSE "dongle"
      OBVIOUS
    <2>3. call'[c].pc = "service" /\ call'[c].svc = v /\ \A d \in Callers \ {c} : call'[d] = call[d]
      BY <1>1, <2>1, <2>2 DEF Calling
    <2>4. Judged => v = Fitting(setup.board)
      <3> SUFFICES ASSUME Judged
                   PROVE  v = Fitting(setup.board)
        OBVIOUS
      <3>1. cl.by = Own /\ setup.board \in Boards
        BY DEF OwnInv, Rightly, Held, SettingOK
      <3>2. CASE cl.by = "zmk"
        <4>1. setup.board \notin Dongles
          BY <3>1, <3>2 DEF Own, Owner, Dongles
        <4> QED BY <2>2, <3>1, <3>2, <4>1 DEF Fitting, Own, Dongles
      <3>3. CASE cl.by # "zmk"
        BY <1>2, <1>4, <2>2, <3>3 DEF Fitting, Dongles
      <3> QED BY <3>2, <3>3
    <2> QED BY <1>4, <2>3, <2>4 DEF Fits
  <1>5. CASE /\ AfterProbe(cl) # "serve" /\ UNCHANGED aborted
             /\ IF AfterProbe(cl) = "r_begin" THEN LoadIdentity /\ cli' = [cl EXCEPT !.key = Key]
                                              ELSE UNCHANGED <<ident, slipped>> /\ cli' = cl
             /\ \E h \in {"pipes", "yes"} :
                  /\ h = "pipes" => call[c].hears = "pipes"
                  /\ call' = [call EXCEPT ![c].pc = "conn", ![c].step = AfterProbe(cl), ![c].hears = h]
    <2>1. PICK h \in {"pipes", "yes"} :
            call' = [call EXCEPT ![c].pc = "conn", ![c].step = AfterProbe(cl), ![c].hears = h]
      BY <1>5
    <2>2. call'[c].pc = "conn" /\ call'[c].step = AfterProbe(cl)
          /\ \A d \in Callers \ {c} : call'[d] = call[d]
      BY <1>1, <2>1 DEF Calling
    <2>3. (cli'.orphan => cl.orphan) /\ (cli'.dongle => cl.dongle)
      BY <1>5, Derived
    <2> QED BY <1>2, <1>5, <2>2, <2>3 DEF Fits
  <1> QED BY <1>3, <1>4, <1>5 DEF Entered

LEMMA RightConnect ==
    ASSUME Held, OwnInv, RightInv, NEW c \in Callers, Connect(c)
    PROVE  RightInv'
  <1>1. call \in [Callers -> Calling] /\ cli \in Client /\ call[c] \in Calling /\ CallOK(c)
        /\ ClientOK /\ missed \in Nat
    BY BoundsAssumption DEF Held, TypeOK
  <1>2. call[c].pc = "picked" /\ UNCHANGED <<setup, order, stale, missed, astray>>
    BY DEF Connect
  <1>3. call[c].who \in Adapters /\ cli.user # c
    BY <1>1, <1>2 DEF CallOK, Calling
  <1>4. missed' \in Nat /\ missed' >= missed /\ (Judged' => Judged)
    BY <1>1, <1>2 DEF Judged, KnownHid
  <1>5. PICK a : a = call[c].who
    OBVIOUS
  <1>6. ASSUME \A d \in Callers \ {c} : call'[d] = call[d], aborted => aborted',
               cli'.orphan => cli.orphan, cli'.dongle => cli.dongle,
               call'[c].pc = "conn" => call'[c].step \notin FSteps, Judged => Fits(c)'
        PROVE  RightInv'
    <2>1. setup.board = "vial" /\ missed' = 0 => stale' = None /\ ~cli'.orphan
      BY <1>2, <1>6 DEF RightInv, Clean
    <2>2. Judged' => (cli'.dongle => setup.board \in Dongles)
      BY <1>4, <1>6 DEF RightInv
    <2> QED BY <1>2, <1>4, <1>6, <2>1, <2>2, RightMoved
  <1>7. CASE Cached(a) /\ Enter(c, [cli EXCEPT !.user = c])
    <2>1. PICK cl : cl = [cli EXCEPT !.user = c]
      OBVIOUS
    <2>2. cl \in Client /\ cl.user = c /\ cl.by = cli.by /\ cl.open = cli.open
      BY <1>1, <2>1 DEF Client
    <2>3. cli.by = a /\ cli.user = "cache" /\ cli.open /\ cl.by # None
      BY <1>1, <1>3, <1>5, <1>7, <2>2, Vocabulary DEF Cached, ClientOK
    <2>4. Enter(c, cl)
      BY <1>7, <2>1
    <2>5. Entered(c, cl)
      BY <2>2, <2>3, <2>4, Entering DEF Held
    <2>6. (cl.orphan => cli.orphan) /\ (cl.dongle => cli.dongle)
      BY <1>1, <2>1, Derived
    <2>7. Judged => (cl.dongle => setup.board \in Dongles)
      BY <2>6 DEF RightInv
    <2>8. /\ \A d \in Callers \ {c} : call'[d] = call[d]
          /\ aborted => aborted'
          /\ (cli'.orphan => cl.orphan) /\ (cli'.dongle => cl.dongle)
          /\ call'[c].pc = "conn" => call'[c].step \notin FSteps
          /\ Judged => Fits(c)'
      BY <1>2, <1>5, <2>2, <2>3, <2>5, <2>7, RightEntered
    <2> QED BY <1>6, <2>6, <2>8
  <1>8. CASE /\ cli.by = None
             /\ cli' = [Fresh(a, c) EXCEPT !.open = (a = "zmk" => ~call[c].sig)]
             /\ call' = [call EXCEPT ![c].pc = "conn", ![c].step = First(a),
                                     ![c].hears = IF a = "zmk" THEN "pipes" ELSE @]
             /\ UNCHANGED <<aborted, ident, slipped>>
    <2>1. call'[c].pc = "conn" /\ call'[c].step = First(a)
          /\ \A d \in Callers \ {c} : call'[d] = call[d]
      BY <1>1, <1>8 DEF Calling
    <2>2. First(a) \notin FSteps
      BY <1>3, <1>5, PartDomains DEF First, FSteps, Adapters
    <2>3. ~cli'.orphan /\ ~cli'.dongle
      BY <1>8 DEF Fresh, NoClient
    <2> QED BY <1>6, <1>8, <2>1, <2>2, <2>3 DEF Fits
  <1>9. CASE call' = [call EXCEPT ![c].pc = "failed", ![c].step = "locked"]
             /\ UNCHANGED <<cli, aborted, ident, slipped>>
    <2>1. call'[c].pc = "failed" /\ \A d \in Callers \ {c} : call'[d] = call[d]
      BY <1>1, <1>9 DEF Calling
    <2> QED BY <1>6, <1>9, <2>1 DEF Fits
  <1> QED BY <1>5, <1>7, <1>8, <1>9 DEF Connect

LEMMA RightPicks ==
    ASSUME Held, RightInv, NEW c \in Callers, Pick(c) \/ Name(c) \/ TryNext(c)
    PROVE  RightInv'
  <1>1. call \in [Callers -> Calling] /\ cli \in Client /\ call[c] \in Calling
        /\ missed \in Nat /\ astray \in BOOLEAN
    BY BoundsAssumption DEF Held, TypeOK
  <1>2. UNCHANGED <<setup, aborted, stale, missed>> /\ (astray => astray')
    BY <1>1 DEF Pick, Name, TryNext, transportVars
  <1>3. call'[c].pc \in {"pick", "picked", "null"} /\ \A d \in Callers \ {c} : call'[d] = call[d]
    <2>1. CASE Pick(c) \/ Name(c)
      BY <1>1, <2>1 DEF Pick, Name, Calling
    <2>2. CASE TryNext(c)
      BY <1>1, <2>2 DEF TryNext, Calling
    <2> QED BY <2>1, <2>2
  <1>4. cli' = cli \/ \E a : cli' = Fresh(a, c)
    BY DEF Pick, Name, TryNext, transportVars
  <1>5. (cli'.orphan => cli.orphan) /\ (cli'.dongle => cli.dongle)
    BY <1>4 DEF Fresh, NoClient
  <1>6. Judged' => Judged
    BY <1>2 DEF Judged, KnownHid
  <1>7. setup.board = "vial" /\ missed' = 0 => stale' = None /\ ~cli'.orphan
    BY <1>2, <1>5 DEF RightInv, Clean
  <1>8. Judged' => (cli'.dongle => setup.board \in Dongles) /\ Fits(c)'
    BY <1>3, <1>5, <1>6 DEF RightInv, Fits
  <1>9. missed' \in Nat /\ missed' >= missed
    BY <1>1, <1>2
  <1> QED BY <1>2, <1>3, <1>7, <1>8, <1>9, RightMoved

\* What one exchange leaves to prove.
LEMMA RightAdvanced ==
    ASSUME Held, OwnInv, RightInv, NEW c \in Callers, call[c].step \in Steps,
           call[c].pc \in {"pick", "conn"},
           NEW w, NEW next, NEW heard, Exchanged(c, w, next, heard),
           \A d \in Callers \ {c} : call'[d] = call[d], aborted => aborted',
           cli'.orphan => heard.orphan \/ cli.orphan,
           cli'.dongle => heard.dongle \/ cli.dongle,
           setup.board = "vial" /\ missed' = 0 =>
               (call'[c].pc = "conn" /\ call'[c].step \in FSteps => aborted'),
           Judged' => Fits(c)'
    PROVE  RightInv'
  <1>1. missed \in Nat /\ astray \in BOOLEAN /\ MaxMissed \in Nat
    BY BoundsAssumption DEF Held, TypeOK
  <1>2. UNCHANGED setup /\ (astray => astray') /\ missed' \in Nat
    BY <1>1, ExchangeTypes DEF Exchanged
  <1>3. Judged' => Judged
    BY <1>2 DEF Judged, KnownHid
  <1>4. /\ missed' >= missed
        /\ Judged => (heard.dongle => setup.board \in Dongles)
        /\ setup.board = "vial" /\ missed' = 0 => missed = 0 /\ stale' = None /\ ~heard.orphan
    BY HeardRight
  <1>5. setup.board = "vial" /\ missed' = 0 => stale' = None /\ ~cli'.orphan
    BY <1>4 DEF RightInv, Clean
  <1>6. Judged' => (cli'.dongle => setup.board \in Dongles)
    BY <1>3, <1>4 DEF RightInv
  <1> QED BY <1>2, <1>4, <1>5, <1>6, RightMoved

\* The fallback of a Vial board is for a definition that could not be read.
LEMMA RightGoesOn ==
    ASSUME Held, OwnInv, RightInv, NEW c \in Callers, call[c].step \in Steps,
           call[c].pc \in {"pick", "conn"},
           NEW w, NEW next, NEW heard, Exchanged(c, w, next, heard), GoesOn(c, next, heard)
    PROVE  RightInv'
  <1>1. call \in [Callers -> Calling] /\ call[c] \in Calling /\ CallOK(c) /\ aborted \in BOOLEAN
    BY DEF Held, TypeOK
  <1>2. UNCHANGED aborted /\ cli' = heard /\ next \in Steps /\ next = Goes(call[c].step, w.good)
    BY DEF GoesOn, Exchanged
  <1>3. /\ call'[c].pc = call[c].pc /\ call'[c].step = next
        /\ \A d \in Callers \ {c} : call'[d] = call[d]
    BY <1>1 DEF GoesOn, Calling
  <1>4. ASSUME setup.board = "vial", missed' = 0, call[c].pc = "conn", next \in FSteps
        PROVE  aborted
    <2>1. PICK a, s : a = call[c].who /\ s = call[c].step
      OBVIOUS
    <2>2. a \in Adapters /\ FSteps = {"f_layers", "f_saved", "f_enc", "f_keys"}
      BY <1>4, <2>1, ExchangeTypes, PartDomains DEF FSteps
    <2>3. CASE Probing(c)
      <3>1. next \in ProbeSteps(a) \cup {"found", "no"}
        BY <1>2, <1>4, <2>1, <2>3, ExchangeTypes DEF ProbeGoes
      <3> QED BY <1>4, <2>2, <3>1, ScriptSets, Vocabulary
    <2>4. CASE Serving(c) /\ s \in FSteps
      BY <1>4, <2>1, <2>4, HeardRight DEF RightInv, Clean
    <2>5. CASE Serving(c) /\ s \notin FSteps
      <3>1. ~w.good /\ s \in {"l_def", "l_layers"}
        <4>1. ServeGoes(a, s, w.good)
          BY <1>4, <2>1, <2>5, ExchangeTypes
        <4> QED BY <1>2, <1>4, <2>1, <2>5, <4>1 DEF ServeGoes, FSteps
      <3>2. Script[s].ask \in {"def", "layers"}
        BY <3>1, VialRows DEF Step
      <3>3. Knows(Script[s].ask)
        BY <1>4, <3>2 DEF Knows, Says, ViaVerbs
      <3>4. ~(Mine(c) /\ ~aborted)
        BY <1>4, <2>1, <3>1, <3>3, HeardRight
      <3> QED BY <1>1, <2>5, <3>4 DEF Serving, Mine, Holds
    <2> QED BY <1>1, <1>4, <2>3, <2>4, <2>5 DEF CallOK, Connecting
  <1>5. Fits(c)'
    BY <1>3 DEF Fits
  <1> QED BY <1>2, <1>3, <1>4, <1>5, RightAdvanced

LEMMA RightFound ==
    ASSUME Held, OwnInv, RightInv, NEW c \in Callers, call[c].step \in Steps,
           NEW w, NEW next, NEW heard, Exchanged(c, w, next, heard), FoundInPick(c, next, heard)
    PROVE  RightInv'
  <1>1. call \in [Callers -> Calling] /\ call[c] \in Calling
    BY DEF Held, TypeOK
  <1>2. call'[c].pc = "picked" /\ \A d \in Callers \ {c} : call'[d] = call[d]
    BY <1>1 DEF FoundInPick, Calling
  <1>3. heard \in Client /\ cli' = [heard EXCEPT !.user = "cache"] /\ UNCHANGED aborted
        /\ call[c].pc = "pick"
    BY DEF Exchanged, Told, FoundInPick
  <1>4. (cli'.orphan => heard.orphan) /\ (cli'.dongle => heard.dongle)
    BY <1>3, Derived
  <1>5. Fits(c)'
    BY <1>2 DEF Fits
  <1> QED BY <1>2, <1>3, <1>4, <1>5, RightAdvanced

LEMMA RightEnter ==
    ASSUME Held, OwnInv, RightInv, NEW c \in Callers, call[c].step \in Steps,
           NEW w, NEW next, NEW heard, Exchanged(c, w, next, heard),
           next = "found", call[c].pc = "conn", Enter(c, heard)
    PROVE  RightInv'
  <1>1. Entered(c, heard) /\ heard \in Client /\ heard.by = call[c].who
    BY EnterHolds
  <1>2. heard.by # None /\ UNCHANGED setup /\ astray \in BOOLEAN /\ (astray => astray')
    BY <1>1, ExchangeTypes, Vocabulary DEF Exchanged, Held, TypeOK
  <1>3. Judged => (heard.dongle => setup.board \in Dongles)
    BY HeardRight
  <1>4. /\ \A d \in Callers \ {c} : call'[d] = call[d]
        /\ aborted => aborted'
        /\ (cli'.orphan => heard.orphan) /\ (cli'.dongle => heard.dongle)
        /\ call'[c].pc = "conn" => call'[c].step \notin FSteps
        /\ Judged => Fits(c)'
    BY <1>1, <1>2, <1>3, RightEntered
  <1>5. Judged' => Judged
    BY <1>2 DEF Judged, KnownHid
  <1> QED BY <1>4, <1>5, RightAdvanced

\* Which steps serve.
LEMMA Serves ==
    ASSUME NEW a \in Adapters, NEW s \in ServeSteps(a), Goes(s, TRUE) = "serve"
    PROVE  /\ a # "zmk"
           /\ a = "remappr" => s = "r_config" /\ Script[s].ask = "config"
           /\ a = "vial" => s \in {"l_keys", "f_saved", "f_keys"}
           /\ a \in {"via", "keychron"} => s # "f_keys"
  <1>1. CASE a = "remappr"
    BY <1>1, ScriptSets, RemapprRows DEF Goes, Step
  <1>2. CASE a = "vial"
    BY <1>2, ScriptSets, VialRows DEF Goes, Step
  <1>3. CASE a \in {"via", "keychron"}
    BY <1>3, ScriptSets
  <1>4. CASE a = "zmk"
    BY <1>4, ScriptSets
  <1> QED BY <1>1, <1>2, <1>3, <1>4, Vocabulary

LEMMA RightEnded ==
    ASSUME Held, OwnInv, RightInv, NEW c \in Callers, call[c].step \in Steps,
           call[c].pc \in {"pick", "conn"},
           NEW w, NEW next, NEW heard, Exchanged(c, w, next, heard),
           \/ GivenUp(c, next, heard)
           \/ Served(c, next, heard)
           \/ RefusedThere(c, next)
    PROVE  RightInv'
  <1>1. call \in [Callers -> Calling] /\ call[c] \in Calling /\ aborted \in BOOLEAN
        /\ cli \in Client /\ CallOK(c) /\ astray \in BOOLEAN
    BY DEF Held, TypeOK
  <1>2. UNCHANGED setup /\ (astray => astray') /\ Told(c, heard)
        /\ next = Goes(call[c].step, w.good) /\ w.good \in BOOLEAN /\ (w.good => Mine(c) /\ ~aborted)
    BY <1>1 DEF Exchanged
  <1>3. /\ \A d \in Callers \ {c} : call'[d] = call[d]
        /\ call'[c].pc \in {"failed", "service", "pick"}
        /\ ~Served(c, next, heard) => call'[c].pc # "service"
    BY <1>1 DEF GivenUp, Served, RefusedThere, Calling
  <1>4. (LetGo(c) \/ cli' = heard) /\ (aborted => aborted')
    <2>1. CASE GivenUp(c, next, heard) /\ next = "drop"
      <3>1. CloseAbort(call[c].who, c) /\ call[c].pc = "conn"
        BY <2>1, GivenUpHolds DEF GivenUp
      <3> QED BY <3>1, ExchangeTypes, CloseAborts
    <2>2. CASE Served(c, next, heard) \/ (GivenUp(c, next, heard) /\ next # "drop")
      BY <2>2 DEF GivenUp, Served
    <2>3. CASE RefusedThere(c, next)
      <3>1. "no" \notin Steps /\ next = "no"
        BY <2>3, PartDomains, ScriptParts DEF RefusedThere
      <3>2. call[c].who \in Adapters /\ Holds(c)
        <4>1. CASE call[c].pc = "pick"
          BY <4>1, ExchangeTypes
        <4>2. CASE call[c].pc = "conn" /\ Probing(c)
          BY <4>2, ExchangeTypes DEF Probing
        <4>3. CASE call[c].pc = "conn" /\ Serving(c)
          <5>1. ServeGoes(call[c].who, call[c].step, w.good) /\ call[c].who \in Adapters
            BY <4>3, ExchangeTypes
          <5>2. next \in Steps \cup {"serve", "drop", "throw"}
            BY <1>2, <5>1, ScriptSets DEF ServeGoes
          <5> QED BY <3>1, <5>2
        <4> QED BY <1>1, <4>1, <4>2, <4>3 DEF CallOK, Connecting
      <3> QED BY <2>3, <3>2, Refusing DEF RefusedThere
    <2> QED BY <2>1, <2>2, <2>3
  <1>5. /\ cli'.orphan => heard.orphan \/ cli.orphan
        /\ cli'.dongle => heard.dongle \/ cli.dongle
    <2>1. CASE LetGo(c)
      <3>1. cli' = cli \/ cli' = NoClient \/ cli' = [cli EXCEPT !.open = FALSE]
        BY <2>1 DEF LetGo
      <3>2. (cli'.orphan => cli.orphan) /\ (cli'.dongle => cli.dongle)
        BY <1>1, <3>1, Derived
      <3> QED BY <3>2
    <2>2. CASE cli' = heard
      BY <2>2
    <2> QED BY <1>4, <2>1, <2>2
  <1>6. ASSUME Judged', Served(c, next, heard)
        PROVE  Fits(c)'
    <2>1. PICK a, s, v, b, n : /\ a = call[c].who /\ s = call[c].step /\ v = Script[s].ask
                               /\ b = ServiceOf(s) /\ n = Noticed(s)
      OBVIOUS
    <2>2. Judged /\ OwnInv
      BY <1>2, <1>6 DEF Judged, KnownHid
    <2>3. a \in Adapters /\ Serving(c) /\ ServeGoes(a, s, w.good) /\ call[c].pc = "conn"
      BY <1>6, <2>1, GivenUpHolds, ExchangeTypes
    <2>4. w.good /\ next = "serve"
      BY <1>2, <1>6, <2>1, <2>3 DEF Served, ServeGoes
    <2>5. v \in Says(setup.board) /\ Mine(c) /\ ~aborted
      <3>1. w.good => Script[call[c].step].ask \in Says(setup.board)
        BY HeardExchanged DEF OwnInv
      <3> QED BY <1>2, <2>1, <2>4, <3>1
    <2>6. cli.by = a /\ a = Own /\ setup.board \in Boards
      BY <2>1, <2>2, <2>3, <2>5 DEF Serving, Holds, Mine, OwnInv, Rightly, Held, SettingOK
    <2>7. s \in ServeSteps(a) /\ Goes(s, TRUE) = "serve"
      BY <1>2, <2>1, <2>3, <2>4 DEF Serving
    <2>8. call'[c].svc = b /\ call'[c].note = n
      BY <1>1, <1>6, <2>1 DEF Served, Calling
    <2>9. CASE a = "remappr"
      <3>1. v = "config" /\ s = "r_config"
        BY <2>1, <2>3, <2>7, <2>9, Serves
      <3>2. setup.board \in {"node", "openNode"}
        BY <2>5, <2>6, <3>1, Spoken
      <3>3. ~cli.dongle
        BY <2>2, <3>2 DEF RightInv, Dongles
      <3>4. b = "remappr"
        BY <2>1, <2>6, <2>9, <3>1, <3>3 DEF ServiceOf
      <3>5. Fitting(setup.board) = "remappr"
        BY <2>6, <2>9, <3>2 DEF Fitting, Own
      <3> QED BY <1>2, <2>8, <3>4, <3>5 DEF Fits
    <2>10. CASE a \in {"via", "keychron"}
      <3>1. b = Own
        BY <2>1, <2>3, <2>6, <2>7, <2>10, Serves DEF ServiceOf
      <3>2. Fitting(setup.board) = Own
        BY <2>6, <2>10, Spoken DEF Fitting, Own, Owner
      <3> QED BY <1>2, <2>8, <3>1, <3>2 DEF Fits
    <2>11. CASE a = "vial"
      <3>1. setup.board \in {"vial", "mutedVial"}
        BY <2>6, <2>11 DEF Own, Owner, Boards
      <3>2. Fitting(setup.board) = "vial"
        BY <2>6, <2>11, <3>1 DEF Fitting, Own
      <3>3. s # "f_keys" => b = "vial"
        BY <2>1, <2>6, <2>11 DEF ServiceOf
      <3>4. CASE s = "f_keys"
        <4>1. b = "via" /\ n = TRUE
          BY <2>1, <2>6, <2>11, <3>4 DEF ServiceOf, Noticed
        <4>2. setup.board = "vial" => missed' > 0
          <5> SUFFICES ASSUME setup.board = "vial", ~(missed' > 0)
                       PROVE  FALSE
            OBVIOUS
          <5>1. missed' \in Nat
            BY ExchangeTypes, BoundsAssumption
          <5>2. missed' = 0
            BY <5>1
          <5>3. missed = 0 /\ s \in FSteps
            BY <3>4, <5>2, HeardRight, PartDomains DEF FSteps
          <5> QED BY <2>1, <2>3, <2>5, <5>3 DEF RightInv, Clean
        <4> QED BY <1>2, <2>8, <3>1, <4>1, <4>2 DEF Fits
      <3> QED BY <1>2, <2>8, <3>2, <3>3, <3>4 DEF Fits
    <2>12. a # "zmk"
      BY <2>3, <2>7, Serves
    <2> QED BY <2>3, <2>9, <2>10, <2>11, <2>12, Vocabulary
  <1>7. Judged' => Fits(c)'
    BY <1>3, <1>6 DEF Fits
  <1>8. call'[c].pc # "conn"
    BY <1>3
  <1> QED BY <1>3, <1>4, <1>5, <1>7, <1>8, RightAdvanced

LEMMA RightExchanged ==
    ASSUME Held, OwnInv, RightInv, NEW c \in Callers, Exchange(c)
    PROVE  RightInv'
  <1>1. PICK w, next, heard :
            /\ Exchanged(c, w, next, heard)
            /\ \/ GoesOn(c, next, heard)
               \/ FoundInPick(c, next, heard)
               \/ next = "found" /\ call[c].pc = "conn" /\ Enter(c, heard)
               \/ RefusedThere(c, next)
               \/ GivenUp(c, next, heard)
               \/ Served(c, next, heard)
    BY Exchanging
  <1>2. call[c].step \in Steps /\ call[c].pc \in {"pick", "conn"}
    BY Exchanging
  <1> QED BY <1>1, <1>2, RightGoesOn, RightFound, RightEnter, RightEnded

LEMMA RightAbort ==
    ASSUME Held, RightInv, NEW c \in Callers, Abort(c)
    PROVE  RightInv'
  <1>1. call \in [Callers -> Calling] /\ call[c] \in Calling /\ aborted \in BOOLEAN
        /\ cli \in Client /\ CallOK(c) /\ ClientOK /\ missed \in Nat
    BY BoundsAssumption DEF Held, TypeOK
  <1>2. call[c].pc \in {"picked", "conn", "service"}
        /\ UNCHANGED <<setup, stale, missed, astray>>
    BY DEF Abort
  <1>3. call[c].who \in Adapters
    BY <1>1, <1>2 DEF CallOK, Calling
  <1>4. /\ call'[c].pc = call[c].pc /\ call'[c].step = call[c].step
        /\ call'[c].svc = call[c].svc /\ call'[c].note = call[c].note
        /\ \A d \in Callers \ {c} : call'[d] = call[d]
    BY <1>1 DEF Abort, Calling
  <1>5. /\ cli' = cli \/ cli' = NoClient \/ cli' = [cli EXCEPT !.open = FALSE]
        /\ aborted => aborted'
    <2>1. CASE call[c].hears = "yes"
      <3>1. CloseAbort(call[c].who, c)
        BY <2>1 DEF Abort
      <3> QED BY <1>3, <3>1, CloseAborts DEF LetGo
    <2>2. CASE call[c].hears # "yes"
      BY <2>2 DEF Abort
    <2> QED BY <2>1, <2>2
  <1>6. (cli'.orphan => cli.orphan) /\ (cli'.dongle => cli.dongle)
    BY <1>1, <1>5, Derived
  <1>7. Judged' => Judged
    BY <1>2 DEF Judged, KnownHid
  <1>8. setup.board = "vial" /\ missed' = 0 =>
            /\ stale' = None /\ ~cli'.orphan
            /\ call'[c].pc = "conn" /\ call'[c].step \in FSteps => aborted'
    BY <1>2, <1>4, <1>5, <1>6 DEF RightInv, Clean
  <1>9. Judged' => (cli'.dongle => setup.board \in Dongles) /\ Fits(c)'
    BY <1>2, <1>4, <1>6, <1>7 DEF RightInv, Fits
  <1>10. missed' \in Nat /\ missed' >= missed
    BY <1>1, <1>2
  <1> QED BY <1>2, <1>4, <1>5, <1>8, <1>9, <1>10, RightMoved

LEMMA RightStill ==
    ASSUME RightInv, UNCHANGED <<setup, transportVars, call>>
    PROVE  RightInv'
  <1>1. UNCHANGED <<setup, aborted, cli, stale, missed, astray, call>>
    BY DEF transportVars
  <1>2. Judged' => Judged
    BY <1>1 DEF Judged, KnownHid
  <1>3. Clean'
    BY <1>1 DEF RightInv, Clean, FSteps, ConnectWithoutDeviceDef
  <1>4. \A c \in Callers : Fits(c) => Fits(c)'
    BY <1>1 DEF Fits
  <1> QED BY <1>1, <1>2, <1>3, <1>4 DEF RightInv

LEMMA RightAtRest ==
    cli = NoClient /\ stale = None /\ call = [c \in Callers |-> Idle] => RightInv
  BY DEF RightInv, Clean, Fits, NoClient, Idle

LEMMA RightNext == Held /\ OwnInv /\ RightInv /\ [Next]_vars => RightInv'
  <1> SUFFICES ASSUME Held, OwnInv, RightInv, [Next]_vars
               PROVE  RightInv'
    OBVIOUS
  <1>1. ASSUME NEW c \in Callers,
               Pick(c) \/ Name(c) \/ TryNext(c) \/ Connect(c) \/ Exchange(c) \/ Abort(c)
        PROVE  RightInv'
    BY <1>1, RightPicks, RightConnect, RightExchanged, RightAbort
  <1>2. CASE Prepare \/ Warmed \/ ReadFails \/ Saved \/ SaveFails
    BY <1>2, RightStill DEF Prepare, Warmed, ReadFails, Saved, SaveFails
  <1>3. CASE \E restart \in BOOLEAN : Reopen(restart)
    <2>1. cli' = NoClient /\ stale' = None /\ call' = [c \in Callers |-> Idle]
      BY <1>3 DEF Reopen
    <2>2. (cli = NoClient /\ stale = None /\ call = [c \in Callers |-> Idle] => RightInv)'
      BY RightAtRest, PTL
    <2> QED BY <2>1, <2>2
  <1>4. CASE UNCHANGED vars
    BY <1>4, RightStill DEF vars
  <1> QED BY <1>1, <1>2, <1>3, <1>4 DEF Next

\* A caller gets the service that fits the board, a Vial board a lesser one only with
\* a notice and for a reason, unless the owner's probe was misheard, or a HID
\* transport has no vendor id (the adapters' connect).
THEOREM ServiceTheorem == Spec => []RightService
  <1>1. RightInv => RightService
    <2> SUFFICES ASSUME RightInv, NEW c \in Callers, call[c].pc = "service", ~astray,
                        setup.kind = "hid" => KnownHid
                 PROVE  \/ call[c].svc = Fitting(setup.board)
                        \/ setup.board = "mutedVial" /\ call[c].svc = "via" /\ call[c].note
                        \/ setup.board = "vial" /\ call[c].svc = "via" /\ call[c].note /\ missed > 0
      BY DEF RightService
    <2>1. Fits(c)
      BY DEF RightInv, Judged
    <2> QED BY <2>1 DEF Fits
  <1>2. Init => RightInv
    BY RightAtRest DEF Init
  <1> QED BY <1>1, <1>2, RightNext, OwnInit, OwnNext, HeldAlways, PTL DEF Spec
=============================================================================
