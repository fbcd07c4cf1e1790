------------------------------ MODULE WeatherApp ------------------------------
(***************************************************************************)
(* The weather app (ui/apps/weather_app.cpp) and its backend                 *)
(* (connect/weather_backend.cpp): a few city slots, one forecast cache for    *)
(* each, and the slot the daemon takes for the active one.  A place is a      *)
(* number, and 0 is none; what a forecast says is left out.                   *)
(***************************************************************************)
EXTENDS ConnectCalls

CONSTANTS
  MaxCities,  \* kMaxCities
  Places      \* places the geocoder knows

VARIABLES
  wx,    \* WeatherApp: layer_, enter_step_, what is typed, selected_slot_,
         \* pending_slot_, ip_target_slot_, active_slot_, the slots of cities_
         \* that are configured, background_fetch_pending_, the place shown
  sky    \* WeatherBackend: active_slot, cities, the config file, the cache
         \* files, the slot the worker fetches for (-1 is none), and
         \* the place it had before

weatherVars == <<wx, sky>>
Slots == 0..(MaxCities - 1)
None == MaxCities

WxReset ==
  [layer |-> "loading", step |-> 1, typed |-> [i \in 1..3 |-> FALSE], slot |-> 0, pend |-> 0,
   ip |-> None, act |-> 0, listed |-> FALSE, known |-> {}, bg |-> FALSE, shown |-> 0]

WeatherInit ==
  /\ wx = WxReset
  /\ \E c \in [Slots -> {0} \cup Places] :
       sky = [active |-> 0, city |-> c, saved |-> c, cache |-> [s \in Slots |-> 0], work |-> 0 - 1,
              prev |-> 0]

-----------------------------------------------------------------------------
(* The backend                                                             *)

\* list_cities, as load_city_list shows it
Configured == {s \in Slots : sky.city[s] # 0}
LoadCities(v) ==
  IF up THEN [v EXCEPT !.layer = "cities", !.listed = TRUE, !.act = sky.active, !.known = Configured]
        ELSE [v EXCEPT !.layer = "cities", !.listed = FALSE, !.act = 0, !.known = {}]

\* select_city, with save_config
FetchJob == \E cmd \in {"open", "behind", "fetch"} : JobOf("weather", cmd)
Select(s) == sky' = [sky EXCEPT !.active = s, !.saved = sky.city]

\* build_cache_from_api and save_cache: the forecast of a slot's city
Cached(b, s) == [b EXCEPT !.cache[s] = b.city[s]]

\* The tail of fetch_slot: the forecast came, or the old cache has to do.
Fetched(b, s, ok) == IF ok THEN Cached(b, s) ELSE b
Updated(b, s, ok) ==
  IF ok /\ s = b.active THEN <<Event("weather", "updated")>> ELSE <<>>

\* fetch and fetch_slot up to curl; set_city and set_city_from_ip up to
\* fetch_slot, when the place was found: looking it up (weather_backend.cpp:1203)
\* is one step with the beginning of the job.
WeatherBegin ==
  /\ sky.work < 0
  /\ \/ /\ FetchJob /\ sky.city[sky.active] # 0
        /\ sky' = [sky EXCEPT !.work = sky.active, !.saved = sky.city, !.prev = 0]
     \/ /\ JobOf("weather", "city")
        /\ \E p \in Places, s \in {Head(jobs).n} :
             sky' = [sky EXCEPT !.city[s] = p, !.saved = [sky.city EXCEPT ![s] = p],
                                !.active = s, !.work = s, !.prev = 0]
     \/ /\ JobOf("weather", "ip")
        /\ \E p \in Places, s \in {Head(jobs).n} :
             sky' = [sky EXCEPT !.city[s] = p, !.saved = [sky.city EXCEPT ![s] = p], !.work = s,
                                !.prev = sky.city[s]]
  /\ UNCHANGED <<callVars, wx>>

\* fetch without a city, set_city and set_city_from_ip without a place
WeatherNotFound ==
  /\ sky.work < 0
  /\ \/ FetchJob /\ sky.city[sky.active] = 0
     \/ JobOf("weather", "city") \/ JobOf("weather", "ip")
  /\ JobDone(<<Reply(Head(jobs), FALSE, 0)>>)
  /\ UNCHANGED <<registry, up, sound, keys, crashes, weatherVars>>

\* A forecast that cannot be fetched is answered with the cache, whoever it is
\* of; with none, set_city_from_ip takes the city back, in memory.
WeatherEnd ==
  /\ sky.work >= 0 /\ up /\ jobs # <<>>
  /\ \E ok \in BOOLEAN, s \in {sky.work} :
       LET b == Fetched(sky, s, ok)
           found == b.cache[s] # 0
       IN  /\ JobDone(Append(Updated(b, s, ok), Reply(Head(jobs), found, b.cache[s])))
           /\ sky' = IF ~found /\ Head(jobs).cmd = "ip"
                       THEN [b EXCEPT !.work = 0 - 1, !.city[s] = b.prev] ELSE [b EXCEPT !.work = 0 - 1]
  /\ UNCHANGED <<registry, up, sound, keys, crashes, wx>>

\* poll_refresh of the daemon's main loop, when the cache is old
WeatherRefresh ==
  /\ up /\ Room /\ sky.city[sky.active] # 0
  /\ sky.cache[sky.active] # sky.city[sky.active] \* bound: only then
  /\ sky' = Cached([sky EXCEPT !.saved = sky.city], sky.active)
  /\ outbox' = Append(outbox, Event("weather", "updated"))
  /\ UNCHANGED <<registry, up, jobs, sound, keys, crashes, wx>>

\* The daemon is started again from its config file.
WeatherRestart ==
  /\ ~up /\ up' = TRUE
  /\ sky' = [sky EXCEPT !.city = sky.saved, !.work = 0 - 1]
  /\ UNCHANGED <<registry, jobs, outbox, sound, keys, crashes, wx>>

-----------------------------------------------------------------------------
(* The app                                                                 *)

WeatherEnter ==
  /\ Launch("weather") /\ wx' = LoadCities(WxReset)
  /\ UNCHANGED <<busy, prompt, daemon, sound, crashes, sky>>

WeatherLeave ==
  /\ Leave("weather") /\ wx' = WxReset /\ busy' = (busy /\ prompt # "shown")
  /\ UNCHANGED <<daemon, sound, crashes, sky>>

quiet == <<app, busy, prompt, up, outbox, sound, crashes>>
Ask(cmd, n) == Room /\ SubmitFor("weather", cmd, n)

\* open_city_forecast: the cache is shown and a fetch asked for in the background.
WeatherOpen ==
  /\ Reaches("weather") /\ wx.layer = "cities" /\ UNCHANGED quiet
  /\ \E s \in wx.known :
       IF ~up THEN wx' = [wx EXCEPT !.slot = s] /\ UNCHANGED <<jobs, sky>>
       ELSE /\ Select(s)
            /\ IF sky.cache[s] # 0
                 THEN /\ Ask("behind", 0)
                      /\ wx' = [wx EXCEPT !.slot = s, !.layer = "forecast",
                                         !.shown = sky.cache[s], !.bg = TRUE]
                 ELSE Ask("open", 0) /\ wx' = [wx EXCEPT !.slot = s, !.layer = "loading"]

\* handle_cities on an empty slot, begin_add_city, handle_replace_slot
WeatherAdd ==
  /\ Reaches("weather") /\ UNCHANGED <<quiet, jobs, sky>>
  /\ \E v \in {[wx EXCEPT !.layer = "enter", !.step = 1, !.typed = [i \in 1..3 |-> FALSE]]} :
       \/ wx.layer = "cities" /\ wx.listed /\ \E s \in Slots \ wx.known : wx' = [v EXCEPT !.pend = s]
       \/ wx.layer = "cities" /\ wx.known = Slots /\ wx' = [wx EXCEPT !.layer = "replace"]
       \/ wx.layer = "replace" /\ \E s \in Slots : wx' = [v EXCEPT !.pend = s]

\* on_text and Backspace in city_buffer_
WeatherType ==
  /\ Reaches("weather") /\ wx.layer = "enter"
  /\ \E b \in BOOLEAN : wx' = [wx EXCEPT !.typed[wx.step] = b]
  /\ UNCHANGED <<quiet, jobs, sky>>

\* advance_enter_step: city, region, country
WeatherAdvance ==
  /\ Reaches("weather") /\ wx.layer = "enter" /\ wx.step < 3 /\ (wx.step = 1 => wx.typed[1])
  /\ wx' = [wx EXCEPT !.step = @ + 1, !.typed[wx.step + 1] = FALSE]
  /\ UNCHANGED <<quiet, jobs, sky>>

\* submit_city_entry; set_city
WeatherSubmit ==
  /\ Reaches("weather") /\ wx.layer = "enter" /\ wx.step = 3
  /\ IF up THEN Ask("city", wx.pend) /\ wx' = [wx EXCEPT !.layer = "loading", !.slot = wx.pend]
           ELSE wx' = [wx EXCEPT !.slot = wx.pend, !.step = 1] /\ UNCHANGED jobs
  /\ UNCHANGED <<quiet, sky>>

\* retreat_enter_step, cancel_enter_city, and Backspace in the other layers
WeatherBack ==
  /\ Reaches("weather")
  /\ \/ /\ wx.layer = "enter" /\ ~wx.typed[wx.step] /\ wx.step > 1
        /\ wx' = [wx EXCEPT !.step = @ - 1]
     \/ /\ wx.layer = "enter" /\ ~wx.typed[wx.step] /\ wx.step = 1
        /\ wx' = [wx EXCEPT !.layer = "cities"]
     \/ wx.layer = "replace" /\ wx' = [wx EXCEPT !.layer = "cities"]
     \/ wx.layer = "forecast" /\ wx' = LoadCities(wx)
  /\ UNCHANGED <<quiet, jobs, sky>>

\* "Refresh forecast": start_fetch in the foreground
WeatherFetch ==
  /\ Reaches("weather") /\ wx.layer = "forecast"
  /\ IF up THEN Ask("fetch", 0) /\ wx' = [wx EXCEPT !.layer = "loading", !.bg = FALSE]
           ELSE wx' = [wx EXCEPT !.bg = FALSE] /\ UNCHANGED jobs
  /\ UNCHANGED <<quiet, sky>>

\* handle_post_add_options: begin_ip_city_add or finish_city_add
WeatherPostAdd ==
  /\ Reaches("weather") /\ wx.layer = "options"
  /\ \/ wx' = [wx EXCEPT !.layer = "forecast"] /\ UNCHANGED jobs
     \/ /\ up /\ wx.ip # None
        /\ Ask("ip", wx.ip) /\ wx' = [wx EXCEPT !.layer = "loading"]
  /\ UNCHANGED <<quiet, sky>>

\* next_empty_slot and offer_post_add_options
NextEmpty(v) ==
  LET free == Slots \ (v.known \cup {v.pend})
  IN  IF free = {} THEN None ELSE CHOOSE s \in free : \A t \in free : s <= t

WxAnswered_WaitsOn(v, line) ==
  CASE line.cmd \in {"city", "ip", "open"} /\ ~line.ok -> v
    [] line.cmd = "city" /\ line.ok -> [v EXCEPT !.layer = "options", !.ip = NextEmpty(v), !.shown = line.n]
    [] line.cmd = "behind" -> [v EXCEPT !.bg = FALSE]
    [] OTHER -> [v EXCEPT !.layer = "forecast"]

\* The callbacks of set_city, set_city_from_ip and fetch: whatever slot is
\* selected by now, the answer is what the app shows.
WxAnswered(v, line) ==
  CASE line.cmd = "city" /\ ~line.ok -> [v EXCEPT !.layer = "enter", !.step = 1]
    [] line.cmd = "city" /\ line.ok -> [v EXCEPT !.layer = "options", !.ip = NextEmpty(v), !.shown = line.n]
    [] line.cmd = "ip" /\ ~line.ok -> [v EXCEPT !.layer = "options"]
    [] line.cmd = "ip" /\ line.ok -> IF app = "weather" THEN [v EXCEPT !.layer = "forecast"] ELSE v
    [] line.cmd = "open" -> IF line.ok THEN [v EXCEPT !.layer = "forecast", !.shown = line.n]
                                       ELSE [v EXCEPT !.layer = "cities"]
    [] line.cmd = "behind" -> [v EXCEPT !.bg = FALSE, !.shown = IF line.ok THEN line.n ELSE @]
    [] line.cmd = "fetch" -> [v EXCEPT !.bg = FALSE, !.layer = "forecast",
                                       !.shown = IF line.ok THEN line.n ELSE @]

WeatherAnswer ==
  /\ Answers("weather") /\ wx' = WxAnswered(wx, Line)
  /\ UNCHANGED <<registry, up, jobs, sound, keys, crashes, sky>>

\* on_connect_event: an update reloads a forecast that is waited for.
WeatherEvent ==
  /\ TakeLine /\ Line.event = "updated" /\ UNCHANGED <<registry, up, sound, keys, crashes>>
  /\ IF app # "weather" \/ ~(wx.layer = "loading" \/ wx.bg) THEN UNCHANGED <<wx, sky, jobs>>
     ELSE IF wx.slot # wx.act
     THEN wx' = [LoadCities(wx) EXCEPT !.bg = FALSE] /\ UNCHANGED <<sky, jobs>>
     ELSE IF up /\ sky.cache[wx.slot] # 0
     THEN /\ Select(wx.slot) /\ UNCHANGED jobs
          /\ wx' = [wx EXCEPT !.layer = "forecast", !.shown = sky.cache[wx.slot], !.bg = FALSE]
     ELSE IF up
     THEN /\ Select(wx.slot) /\ wx' = [wx EXCEPT !.bg = FALSE]
          /\ SubmitFor("weather", IF wx.bg THEN "behind" ELSE "fetch", 0)
     ELSE /\ wx' = [wx EXCEPT !.bg = FALSE, !.layer = IF wx.bg THEN @ ELSE "forecast"]
          /\ UNCHANGED <<sky, jobs>>

WeatherKey ==
  \/ WeatherEnter \/ WeatherLeave \/ WeatherOpen \/ WeatherAdd \/ WeatherType \/ WeatherAdvance
  \/ WeatherSubmit \/ WeatherBack \/ WeatherFetch \/ WeatherPostAdd
WeatherPoll == WeatherAnswer \/ WeatherEvent
===============================================================================
