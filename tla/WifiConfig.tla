----------------------------- MODULE WifiConfig -----------------------------
(***************************************************************************)
(* The Wi-Fi start of a border router with SoftAP set-up: the start task      *)
(* connects with what NVS holds, or opens an access point with a page that    *)
(* takes an SSID and a password, waits for them, connects and saves them.     *)
(* What the page stores, on its httpd task, the start task reads without a    *)
(* lock; an event bit says that it is there.                                 *)
(*                                                                          *)
(* A pair of credentials is <<SSID, password>>; "" is empty.                  *)
(***************************************************************************)
EXTENDS Naturals, SetupDns

CONSTANT Submissions   \* pairs a user may submit

ASSUME WifiAssumption == \A p \in Submissions : p = <<p[1], p[2]>>

VARIABLES
  wifi,       \* how far ot_br_init has got
  nvs,        \* the pair in NVS
  mode,       \* s_wifi_config_mode
  opened,     \* the access point came up this boot (history)
  conf,       \* s_configured_ssid, s_configured_password
  bit,        \* WIFI_CONFIGURED_BIT
  got,        \* ot_br_init's copy
  submit,     \* the submission the page handles, and how far it is
  submitted,  \* submissions that were answered with success this boot (history)
  scan,       \* the scan request: how far it is
  radio,      \* a Wi-Fi scan runs
  doneBit,    \* WIFI_SCAN_DONE_BIT
  records     \* s_ap_records: "none", "found", or "freed" while they are rendered

wifiVars == <<wifi, nvs, mode, opened, dns, conf, bit, got, submit, submitted, scan, radio, doneBit, records>>

credVars == <<conf, bit, submit, submitted>>
scanVars == <<scan, radio, doneBit, records>>

Empty == <<"", "">>
NotSubmitting == [pair |-> Empty, at |-> "idle"]

-----------------------------------------------------------------------------
(* ot_br_init. *)

\* RAM goes; what a power cut leaves, too.
WifiRestarts ==
  /\ wifi' = "nvs" /\ mode' = FALSE /\ opened' = FALSE /\ dns' = DnsOff
  /\ conf' = Empty /\ bit' = FALSE /\ got' = Empty /\ submit' = NotSubmitting /\ submitted' = {}
  /\ scan' = "idle" /\ radio' = FALSE /\ doneBit' = FALSE /\ records' = "none"
  /\ UNCHANGED nvs

\* esp_ot_wifi_config_get_ssid and, unchecked, the password; connect with them.
ConnectStored ==
  /\ wifi = "nvs" /\ got' = nvs
  /\ wifi' \in (IF nvs[1] = "" THEN {"start"} ELSE {"start", "up"})
  /\ UNCHANGED <<nvs, mode, opened, dns, credVars, scanVars>>

\* wifi_config_start_softap, whose name server may fail alone; an access point
\* that fails leaves its name server behind.
SoftApStarts == dns' \in DnsStarted /\ opened' \in BOOLEAN

\* esp_br_wifi_config_start, whose failure the caller does not see: the access
\* point, then the web server, without which the access point is stopped again.
ConfigStart ==
  /\ wifi = "start" /\ SoftApStarts
  /\ mode' \in (IF opened' THEN BOOLEAN ELSE {FALSE})
  /\ wifi' = IF opened' /\ ~mode' THEN "dnsClose" ELSE "check"
  /\ UNCHANGED <<nvs, got, credVars, scanVars>>

\* esp_br_wifi_config_get_configured_wifi.
GetChecks ==
  /\ wifi = "check"
  /\ wifi' = IF ~mode THEN "stop" ELSE IF conf[1] = "" THEN "clear" ELSE "ssid"
  /\ UNCHANGED <<nvs, mode, opened, dns, got, credVars, scanVars>>

GetClears ==
  /\ wifi = "clear" /\ wifi' = "wait" /\ bit' = FALSE
  /\ UNCHANGED <<nvs, mode, opened, dns, got, conf, submit, submitted, scanVars>>

\* No limit: the caller's timeout is 0.
GetWakes ==
  /\ wifi = "wait" /\ bit /\ bit' = FALSE /\ wifi' = "ssid"
  /\ UNCHANGED <<nvs, mode, opened, dns, got, conf, submit, submitted, scanVars>>

GetCopiesSsid ==
  /\ wifi = "ssid" /\ wifi' = "password" /\ got' = <<conf[1], got[2]>>
  /\ UNCHANGED <<nvs, mode, opened, dns, credVars, scanVars>>

GetCopiesPassword ==
  /\ wifi = "password" /\ wifi' = "stop" /\ got' = <<got[1], conf[2]>>
  /\ UNCHANGED <<nvs, mode, opened, dns, credVars, scanVars>>

\* esp_br_wifi_config_stop: nothing when the mode is not on; else httpd ends
\* after the request in hand, and the access point is next.
ConfigStop ==
  /\ wifi = "stop"
  /\ IF mode THEN submit.at = "idle" /\ scan = "idle" /\ wifi' = "dnsClose" ELSE wifi' = "connect"
  /\ UNCHANGED <<nvs, mode, opened, dns, got, credVars, scanVars>>

\* wifi_config_stop_softap begins with its name server.
StopCloses ==
  /\ wifi = "dnsClose" /\ wifi' = "dnsAwait" /\ DnsCloses
  /\ UNCHANGED <<nvs, mode, opened, got, credVars, scanVars>>

StopAwaits ==
  /\ wifi = "dnsAwait"
  /\ \/ DnsAwaited /\ DnsTaken /\ wifi' = "dnsClean"
     \/ DnsAwaited /\ dns.sem = "empty" /\ wifi' = "dnsKill" /\ UNCHANGED dns
     \/ ~DnsAwaited /\ wifi' = "dnsClean" /\ UNCHANGED dns
  /\ UNCHANGED <<nvs, mode, opened, got, credVars, scanVars>>

\* Only a task whose handle is still there is deleted.
StopLooks ==
  /\ wifi = "dnsKill" /\ wifi' = IF dns.handle THEN "dnsDelete" ELSE "dnsClean"
  /\ UNCHANGED <<nvs, mode, opened, dns, got, credVars, scanVars>>

StopKills ==
  /\ wifi = "dnsDelete" /\ wifi' = "dnsClean" /\ DnsKilled
  /\ UNCHANGED <<nvs, mode, opened, got, credVars, scanVars>>

\* The rest of the access point, and after a stop the mode and what the page
\* stored; a start that is undone goes on as one that failed.
StopCleans ==
  /\ wifi = "dnsClean" /\ DnsCleaned
  /\ IF mode THEN /\ wifi' = "connect" /\ mode' = FALSE /\ conf' = Empty /\ bit' = FALSE
                  /\ radio' = FALSE /\ records' = "none"
             ELSE wifi' = "check" /\ UNCHANGED <<mode, conf, bit, radio, records>>
  /\ UNCHANGED <<nvs, opened, got, submit, submitted, scan, doneBit>>

\* wifi_config_save_and_connect: a network that cannot be joined, or a pair
\* that cannot be saved, restarts the router.
Connect ==
  /\ wifi = "connect" /\ got[1] # "" /\ wifi' = "saveSsid"
  /\ UNCHANGED <<nvs, mode, opened, dns, got, credVars, scanVars>>

SaveSsid ==
  /\ wifi = "saveSsid" /\ wifi' = "savePassword" /\ nvs' = <<got[1], nvs[2]>>
  /\ UNCHANGED <<mode, opened, dns, got, credVars, scanVars>>

\* Mutant: only a password that was given is saved.
SavePassword_Given ==
  /\ wifi = "savePassword" /\ wifi' = "up"
  /\ nvs' = IF got[2] = "" THEN nvs ELSE <<nvs[1], got[2]>>
  /\ UNCHANGED <<mode, opened, dns, got, credVars, scanVars>>

\* The password of an open network is saved as empty.
SavePassword ==
  /\ wifi = "savePassword" /\ wifi' = "up" /\ nvs' = <<nvs[1], got[2]>>
  /\ UNCHANGED <<mode, opened, dns, got, credVars, scanVars>>

-----------------------------------------------------------------------------
(* The page's submit handler, on httpd's task. *)

Stopping == wifi \in {"dnsClose", "dnsAwait", "dnsKill", "dnsDelete", "dnsClean"}

PageServed == mode /\ ~Stopping /\ scan = "idle" /\ submit.at = "idle"

SubmitStoresSsid(p) ==
  /\ PageServed /\ submit' = [pair |-> p, at |-> "ssid"] /\ conf' = <<p[1], conf[2]>>
  /\ UNCHANGED <<wifi, nvs, mode, opened, dns, bit, got, submitted, scanVars>>

SubmitStoresPassword ==
  /\ submit.at = "ssid" /\ submit' = [submit EXCEPT !.at = "password"]
  /\ conf' = <<conf[1], submit.pair[2]>>
  /\ UNCHANGED <<wifi, nvs, mode, opened, dns, bit, got, submitted, scanVars>>

SubmitSignals ==
  /\ submit.at = "password" /\ submit' = NotSubmitting /\ bit' = TRUE
  /\ submitted' = submitted \cup {submit.pair}
  /\ UNCHANGED <<wifi, nvs, mode, opened, dns, conf, got, scanVars>>

-----------------------------------------------------------------------------
(* The page's scan handler, and the Wi-Fi event that ends a scan. *)

scanFrame == <<wifi, nvs, mode, opened, dns, got, credVars>>

ScanClears ==
  /\ PageServed /\ scan' = "start" /\ doneBit' = FALSE
  /\ UNCHANGED <<scanFrame, radio, records>>

\* A scan that runs still makes the next one fail.
ScanStart ==
  /\ scan = "start"
  /\ \/ ~radio /\ radio' = TRUE /\ scan' = "wait"
     \/ UNCHANGED radio /\ scan' = "idle"
  /\ UNCHANGED <<scanFrame, doneBit, records>>

ScanWaits ==
  /\ scan = "wait"
  /\ \/ doneBit /\ doneBit' = FALSE /\ scan' = "render"
     \/ ~doneBit /\ scan' = "idle" /\ UNCHANGED doneBit
  /\ UNCHANGED <<scanFrame, radio, records>>

ScanRenders ==
  /\ scan = "render" /\ scan' = "idle"
  /\ records' = IF records = "freed" THEN "found" ELSE records
  /\ UNCHANGED <<scanFrame, radio, doneBit>>

\* WIFI_EVENT_SCAN_DONE: the old records are freed.
ScanIsDone ==
  /\ radio /\ radio' = FALSE /\ doneBit' = TRUE
  /\ records' = IF scan = "render" THEN "freed" ELSE "found"
  /\ UNCHANGED <<scanFrame, scan>>

-----------------------------------------------------------------------------
WifiInit ==
  /\ wifi = "nvs" /\ nvs \in Submissions \cup {Empty}
  /\ mode = FALSE /\ opened = FALSE /\ dns = DnsOff /\ conf = Empty /\ bit = FALSE
  /\ got = Empty /\ submit = NotSubmitting /\ submitted = {}
  /\ scan = "idle" /\ radio = FALSE /\ doneBit = FALSE /\ records = "none"

StartStep ==
  \/ ConnectStored \/ ConfigStart \/ GetChecks \/ GetClears \/ GetWakes
  \/ GetCopiesSsid \/ GetCopiesPassword \/ ConfigStop
  \/ StopCloses \/ StopAwaits \/ StopLooks \/ StopKills \/ StopCleans \/ Connect \/ SaveSsid \/ SavePassword

PageStep ==
  \/ SubmitStoresPassword \/ SubmitSignals
  \/ ScanStart \/ ScanWaits \/ ScanRenders

WifiNext ==
  \/ WifiRestarts \/ StartStep \/ PageStep
  \/ \E p \in Submissions : SubmitStoresSsid(p)
  \/ ScanClears \/ ScanIsDone
  \/ DnsTask /\ UNCHANGED <<wifi, nvs, mode, opened, got, credVars, scanVars>>

WifiTypeOK ==
  /\ {nvs, conf, got, submit.pair} \subseteq {<<p[1], q[2]>> : p, q \in Submissions \cup {Empty}}
  /\ {mode, opened, bit, radio, doneBit} \subseteq BOOLEAN
  /\ submit.at \in {"idle", "ssid", "password"} /\ scan \in {"idle", "start", "wait", "render"}
  /\ records \in {"none", "found", "freed"} /\ DnsTypeOK

\* A router that is up comes up again on the same network: NVS holds the pair
\* it connected with, the empty password of an open network too.
UpIsSaved == wifi = "up" => nvs = got

\* A name server that is stopped is out of the way before the router joins its
\* network: its socket is closed, its task in the loop no more; and the task never
\* gives a semaphore that the stop has deleted.
NameServerIsGone ==
  /\ dns.task = "give" => dns.sem # "none"
  /\ opened /\ wifi \in {"connect", "saveSsid", "savePassword", "up"} =>
       ~dns.open /\ dns.sem = "none" /\ dns.task \notin {"loop", "give"}

\* "Clear task handle before exiting to signal completion": a task that the stop
\* deletes has not deleted itself.  It may have, between the stop's look and this.
DeletedOnce == wifi = "dnsDelete" => dns.task # "none"

\* "Stop SoftAP mode" precedes the connection: a router that is up runs no name
\* server of the set-up page.
NoNameServerWhenUp == wifi = "up" => ~dns.open

\* The pair the start task takes is one the page answered with success or was
\* about to.
TakenIsSubmitted ==
  wifi = "stop" /\ mode => got \in submitted \cup {submit.pair}

\* The records a page renders are not freed under it.
RecordsHeldStill == records # "freed"
=============================================================================
