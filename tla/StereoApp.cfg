SPECIFICATION AppFairSpec
CONSTANTS
    MaxClients = 2
    Happens = {"failure"}
    MayFail = {"sys", "vi_vproc_cfg", "media_pipe", "buffer_pool", "sec", "npu",
               "yolo", "cve", "venc", "net", "vi0", "vi1", "lut", "pool0", "pool1",
               "pool_det", "vproc0", "vproc1", "apply_lut", "bind", "scene", "raw"}
INVARIANT AppTypeOK
INVARIANT ReleasesExactly
INVARIANT CapturesClean
PROPERTY QuitEnds
