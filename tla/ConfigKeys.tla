----------------------------- MODULE ConfigKeys -----------------------------
(***************************************************************************)
(* The keys of the configuration server's messages (cmd_type.h), sorted by *)
(* what processMsg does with them, and the configuration files they live   *)
(* in.  A setting is compared with the new value on Set, assigned when it  *)
(* differs, and its file marked as changed.  An answered key changes       *)
(* nothing, whatever the request.  The other keys have code of their own   *)
(* in ConfigStore.  The leading e_ of the names is left out.               *)
(***************************************************************************)
EXTENDS Naturals, Sequences

-----------------------------------------------------------------------------
(* Encoder keys: the channel of the request chooses between two files.     *)

EncSettings == {"denoise", "input_system", "de_interlace", "Stream_enable", "enc_type"}

RateSettings == {"rate_ctl_type", "target_rate_max", "reaction_delay_max",
                 "init_quant", "max_quant", "min_quant"}

RoiSettings == {"mjpeg_quality", "enable_roi", "roi_x", "roi_y", "roi_w", "roi_h"}

\* bit_rate and ip_interval have code of their own
ChannelKeys == EncSettings \cup RateSettings \cup RoiSettings \cup {"bit_rate", "ip_interval"}

-----------------------------------------------------------------------------
(* Settings by file.                                                       *)

ImageSettings == {"wb_g", "wb_b"}

\* they need a region selected before them
OsdSettings == {"osd_region_name", "osd_enable", "osd_x", "osd_y", "osd_w", "osd_h"}

\* net_ip and net_macaddr have code of their own
NetSettings == {"net_dhcpflag", "net_gateway", "net_dnsstat", "net_fdnsip", "net_sdnsip",
                "net_nettype"}

PortSettings == {"port_rtspport"}

UpnpSettings == {"upnp_upmenable"}

DdnsSettings == {"ddns_d3thenable", "ddns_d3thservice", "ddns_d3thuname",
                 "ddns_d3thpasswd", "ddns_domain"}

WfSettings == {"wf_enable", "wf_ssid", "wf_auth", "wf_key", "wf_enc", "wf_mode"}

PtzSettings == {"ptz_protocal", "ptz_address", "ptz_baud", "ptz_databit", "ptz_stopbit",
                "ptz_check"}

AlarmSettings == {"md_io_alarm_enable", "md_io_alarm_flag", "md_email_switch",
                  "md_snap_switch", "md_record_switch", "md_ftp_switch",
                  "md_relay_switch", "md_relay_time"}

ScheduleSettings == {"md_schedule_type", "md_schedule_ename", "md_schedule_etm",
                     "md_schedule_workday_Tstart", "md_schedule_workday_Tend",
                     "md_schedule_workend_Tstart", "md_schedule_workend_Tend",
                     "md_schedule_week_Tstart", "md_schedule_week_Tend"}

\* they go to the area that md_area selected
AreaSettings == {"md_area_eable", "md_area_s", "md_area_method", "md_area_x", "md_area_y",
                 "md_area_w", "md_area_h"}

SnapSettings == {"snapT_enable", "snapT_interval", "snapT_type"}

FtpSettings == {"ft_serverip", "ft_port", "ft_username", "ft_password", "ft_mode",
                "ft_dirname"}

SmtpSettings == {"smtp_serverip", "smtp_port", "smtp_sslflag", "smtp_logintype",
                 "smtp_username", "smtp_password", "smtp_from", "smtp_to",
                 "smtp_subject", "smtp_text"}

\* they go to the area that vdmask_NO selected
MaskSettings == {"vdmask_enable", "vdmask_x", "vdmask_y", "vdmask_w", "vdmask_h",
                 "vdmask_color"}

TimeSettings == {"time_Zone", "time_dstmode", "time_ntpenable", "time_ntpserver",
                 "time_ntpinterval"}

\* a change also asks for a reboot
CloudSettings == {"cld_enable", "cld_id", "cld_pw", "cld_srv_prt", "cld_srv_addr",
                  "cld_dev_name"}

RecSettings == {"rec_enable", "rec_len", "rec_time"}

MdSettings == AlarmSettings \cup ScheduleSettings \cup AreaSettings

Settings == EncSettings \cup RateSettings \cup RoiSettings \cup ImageSettings
            \cup OsdSettings \cup NetSettings \cup PortSettings \cup UpnpSettings
            \cup DdnsSettings \cup WfSettings \cup PtzSettings \cup MdSettings
            \cup SnapSettings \cup FtpSettings \cup SmtpSettings \cup MaskSettings
            \cup TimeSettings \cup CloudSettings \cup RecSettings

-----------------------------------------------------------------------------
(* Keys that change nothing that outlives the request.                     *)

AvAnswers == {"video_chn_num", "audio_enable", "audio_enc_type", "audio_bitrate",
              "audio_rtspport", "audio_samplesize", "audio_samplerate", "video_addr",
              "encode_profile", "profile_levels", "video_SynchronizationPoint", "FW"}

RateAnswers == {"frame_rate", "min_frame_rate", "max_frame_rate"}

SizeAnswers == {"min_ip_interval", "max_ip_interval", "width", "height",
                "videoResolutions", "min_videoEncodingInterval",
                "max_videoEncodingInterval"}

ImageAnswers == {"brightness", "saturation", "contrast", "sharpness", "hue", "scene",
                 "flip", "mirror", "imgctow", "imgwtoc", "wb_r", "wb_mode", "wb_crgain",
                 "wb_cbgain", "backlightcomp_mode", "backlightcomp_level",
                 "wdrange_mode", "wdrange_level"}

NetAnswers == {"infrad_stat", "net_netmask", "net_cardname", "net_protocols",
               "port_httpport"}

WfSearchAnswers == {"wfsearch_channel", "wfsearch_rssi", "wfsearch_essid",
                    "wfsearch_enc", "wfsearch_auth", "wfsearch_net"}

SysAnswers == {"sys_model", "sys_hdversion", "sys_swversion", "sys_devname",
               "sys_startdate", "sys_runtimes", "sys_sdstatus", "sys_sdfreespace",
               "sys_sdtotalspace", "sys_hardwareId", "sys_manufacturer", "sys_Model",
               "sys_serialNumber", "nvr_opt", "nvr_forIDR", "nvr_clientID",
               "enc_resolution"}

PtzAnswers == {"mctp_ptzstring", "ptz_continue_move_default_timeout",
               "ptz_continue_move_vx", "ptz_continue_move_vy",
               "ptz_continue_move_vzoom", "ptz_continue_move_timeout", "ptz_stop_pt",
               "ptz_stop_zoom", "ptz_goto_preset", "ptz_preset", "ptz_presetname",
               "ptz_deletepreset", "ptz_presets_capacity", "sys_protocol",
               "snapshot_start"}

Answers == AvAnswers \cup RateAnswers \cup SizeAnswers \cup ImageAnswers \cup NetAnswers
           \cup WfSearchAnswers \cup SysAnswers \cup PtzAnswers
           \cup {"user_number", "vdmask_number"}

-----------------------------------------------------------------------------
(* Files.                                                                  *)

\* File_array: the order in which the changed files are written
File_array == <<"ENC_0", "ENC_1", "ENC_FW", "IMAGE_ATTR", "OVERLAY", "INFRARED", "NET",
                "PORT", "UPNP", "WF", "DDNS", "PTZCOM", "MD", "USER", "SNAPTIMER", "FTP",
                "SMTP", "VIDMASK", "SYS", "SYS_TIMER", "PTZ_PRESET", "CLOUD", "REC">>

Files == {File_array[n] : n \in 1 .. Len(File_array)}

\* Init_table: what init_system loads.  The encoder files are commented out.
Loaded == Files \ {"ENC_0", "ENC_1"}

\* default_setting has a table for every file but the encoder's, which it unlinks
HasDefault == Files \ {"ENC_0", "ENC_1"}

\* reset_table of do_reset
reset_table == <<"ENC_0", "ENC_1", "OVERLAY", "PTZ_PRESET", "CLOUD">>

\* where a key is kept, for a request that is about the main channel or not
FileOf(k, main) ==
    CASE k \in ChannelKeys                                 -> IF main THEN "ENC_0" ELSE "ENC_1"
      [] k \in ImageSettings                               -> "IMAGE_ATTR"
      [] k \in OsdSettings                                 -> "OVERLAY"
      [] k \in NetSettings \cup {"net_ip", "net_macaddr"}  -> "NET"
      [] k \in PortSettings                                -> "PORT"
      [] k \in UpnpSettings                                -> "UPNP"
      [] k \in DdnsSettings                                -> "DDNS"
      [] k \in WfSettings                                  -> "WF"
      [] k \in PtzSettings                                 -> "PTZCOM"
      [] k \in MdSettings                                  -> "MD"
      [] k \in SnapSettings                                -> "SNAPTIMER"
      [] k \in FtpSettings                                 -> "FTP"
      [] k \in SmtpSettings                                -> "SMTP"
      [] k \in MaskSettings                                -> "VIDMASK"
      [] k \in TimeSettings \cup {"time_systime"}          -> "SYS_TIMER"
      [] k \in CloudSettings                               -> "CLOUD"
      [] k \in RecSettings                                 -> "REC"
      [] OTHER                                             -> "SYS"   \* sys_devtype
=============================================================================
